---- MODULE Spec2Model ----
(***************************************************************************)
(* Model of the paper search of gscientist                                 *)
(* (src/gscientist/tools/builtins/paper_search/arxiv.py and                *)
(* google_scholar.py).                                                     *)
(*                                                                         *)
(* Spec      : one call of ArxivSearcher.search against a nondeterministic *)
(*             source (each HTTP attempt fails or returns a page of at     *)
(*             most the requested number of entries, some malformed).      *)
(* SpecSplit : _split_date_range applied to bounded inputs.                *)
(* SpecFetch : one call of a fetch operation, ArxivSearcher._fetch_batch,  *)
(*             ArxivSearcher.download_pdf or ScholarScraper._make_request  *)
(*             with ProxyManager.get_proxy, against a server that answers, *)
(*             fails or never responds.                                    *)
(* SpecParse : ArxivSearcher._parse_entry applied to bounded feed entries. *)
(*                                                                         *)
(* Locals of a function are reset when the function returns.  The history  *)
(* variables record what the properties speak about: the latest two        *)
(* _fetch_batch calls, the records received, the exhausted segments, the   *)
(* GETs and sleeps of a fetch operation, the probes of a get_proxy call.   *)
(***************************************************************************)
EXTENDS Integers, Sequences, FiniteSets, TLC

VARIABLES
    max_results,    \* self.max_results
    batch_size,     \* self.batch_size
    max_retries,    \* self.max_retries
    start_date,     \* argument start_date of search / _split_date_range
    end_date,       \* argument end_date
    segments,       \* argument segments of _split_date_range
    pc,             \* position of the call
    date_ranges,    \* search: date_ranges
    seg_idx,        \* index in date_ranges of the segment being processed
    all_results,    \* search: all_results
    results,        \* _search_segment: results
    start_idx,      \* _search_segment: start_idx
    current_batch,  \* _search_segment: current_batch
    attempt,        \* _fetch_batch: attempt
    returned,       \* the list search returned
    requests,       \* history: the latest two _fetch_batch calls
    received,       \* history: the records parsed from successful responses
    exhausted,      \* history: number of segments in which _fetch_batch raised
    source_left,    \* entries the source can still deliver
    operation,      \* SpecFetch: the fetch operation that was called
    use_proxy,      \* ProxyConfig.use_proxy
    proxies,        \* ProxyManager.proxies
    proxy,          \* _make_request: proxy
    http,           \* history: the GETs and sleeps of the fetch operation
    waits,          \* history: the waits after the failed Scholar attempts
    last_delay,     \* history: the latest randomized delay
    gp,             \* history: the get_proxy call of the current attempt
    evicted,        \* history: the proxies removed since the pool was rebuilt
    feed_entry,     \* SpecParse: the feed entry given to _parse_entry
    parsed,         \* SpecParse: what _parse_entry returned
    save_batch,     \* ScholarScraper: config.save_batch
    result_divs,    \* ScholarScraper.search: result_divs of the latest page
    batch_results,  \* ScholarScraper.search: batch_results of the latest page
    files,          \* the CSV files of _save_batch, by timestamp
    clock,          \* datetime.now(), in the seconds of the file names
    sort_by,        \* ArxivSearcher: self.sort_by
    sort_order,     \* ArxivSearcher: self.sort_order
    sort_call,      \* history: the latest call of set_sort and its outcome
    export_paper,   \* the Paper given to to_dict
    export_row,     \* what to_dict returned
    catalog,        \* the mocked source: the entries it holds for a query
    failing,        \* the mocked source: the segment whose requests fail
    run,            \* the call of search being made: the first or the second
    first_returned, \* history: what the first call of search returned
    pace,           \* history: the requests and sleeps of a call of search
    projects,       \* the rows of the table projects, by id
    folders,        \* the rows of the table folders
    last_id,        \* the largest id the table projects has given out
    dirs,           \* the directories that exist
    foreign_keys,   \* whether the SQLite build enforces foreign keys
    last_call,      \* history: the latest call and its outcome
    given           \* history: the names given to projects at creation

vars == <<max_results, batch_size, max_retries, start_date, end_date, segments,
          pc, date_ranges, seg_idx, all_results, results, start_idx,
          current_batch, attempt, returned, requests, received, exhausted,
          source_left, operation, use_proxy, proxies, proxy, http, waits,
          last_delay, gp, evicted, feed_entry, parsed, save_batch,
          result_divs, batch_results, files, clock, sort_by, sort_order,
          sort_call, export_paper, export_row, catalog, failing, run,
          first_returned, pace, projects, folders, last_id, dirs,
          foreign_keys, last_call, given>>

\* the store of the project manager and the file system
store == <<projects, folders, last_id, dirs, foreign_keys, last_call, given>>

\* the mocked source and the calls made against it
mock == <<catalog, failing, run, first_returned>>

\* the sort settings and the export
settings == <<sort_by, sort_order, sort_call, export_paper, export_row>>

\* the state of the Scholar search and of its sink, and the settings
other == <<save_batch, result_divs, batch_results, files, clock, settings,
           mock, store>>

\* the state of the fetch operations and of the entry parser
fetch_aux == <<operation, use_proxy, proxies, proxy, http, waits, last_delay,
               gp, evicted, feed_entry, parsed, other>>

aux == <<fetch_aux, pace>>

config == <<max_results, batch_size, max_retries, start_date, end_date, segments>>

(***************************************************************************)
(* Bounds of the model.                                                    *)
(***************************************************************************)
MaxMaxResults == 3
MaxBatchSize == 2
MaxRetries == 2
MaxSourceEntries == 3
NumPapers == 2
MaxStartOffset == 3
MaxSpan == 70
MaxSegments == 5

(***************************************************************************)
(* Program constants.                                                      *)
(***************************************************************************)
DefaultSegments == 4

Min(a, b) == IF a <= b THEN a ELSE b

(***************************************************************************)
(* Dates.  A date string 'YYYY-MM-DD' is the tuple <<y, m, d>>; None is    *)
(* the empty tuple.  datetime keeps a date as a proleptic Gregorian        *)
(* ordinal (0001-01-01 is day 1).                                          *)
(***************************************************************************)
NoDate == << >>

IsLeap(y) == (y % 4 = 0) /\ ((y % 100 # 0) \/ (y % 400 = 0))

DaysInMonth(y, m) ==
    IF m = 2 THEN (IF IsLeap(y) THEN 29 ELSE 28)
    ELSE IF m \in {4, 6, 9, 11} THEN 30 ELSE 31

DaysBeforeYear(y) ==
    (y - 1) * 365 + ((y - 1) \div 4) - ((y - 1) \div 100) + ((y - 1) \div 400)

RECURSIVE DaysBeforeMonth(_, _)
DaysBeforeMonth(y, m) ==
    IF m <= 1 THEN 0 ELSE DaysBeforeMonth(y, m - 1) + DaysInMonth(y, m - 1)

\* datetime.strptime(s, '%Y-%m-%d') succeeds
ValidDate(s) ==
    /\ Len(s) = 3
    /\ s[1] \in 1..9999
    /\ s[2] \in 1..12
    /\ s[3] \in 1..DaysInMonth(s[1], s[2])

\* datetime.strptime(s, '%Y-%m-%d'), as the ordinal of the day
Strptime(s) == DaysBeforeYear(s[1]) + DaysBeforeMonth(s[1], s[2]) + s[3]

\* the month of day n (0-based) of a year
RECURSIVE MonthOfYearDay(_, _, _)
MonthOfYearDay(y, n, m) ==
    IF n < DaysBeforeMonth(y, m + 1) THEN m ELSE MonthOfYearDay(y, n, m + 1)

\* d.strftime('%Y-%m-%d') of the day with ordinal ord
Strftime(ord) ==
    LET n0   == ord - 1
        n400 == n0 \div 146097
        r400 == n0 % 146097
        n100 == r400 \div 36524
        r100 == r400 % 36524
        n4   == r100 \div 1461
        r4   == r100 % 1461
        n1   == r4 \div 365
        r1   == r4 % 365
        year == n400 * 400 + n100 * 100 + n4 * 4 + n1 + 1
    IN  IF n1 = 4 \/ n100 = 4
        THEN <<year - 1, 12, 31>>
        ELSE LET month == MonthOfYearDay(year, r1, 1)
             IN  <<year, month, r1 - DaysBeforeMonth(year, month) + 1>>

(***************************************************************************)
(* ArxivSearcher._split_date_range                                         *)
(***************************************************************************)
\* segment_days = total_days // segments
SegmentDays(start, end, n) == (end - start) \div n

\* segment_start of segment i (0-based)
SegmentStart(start, end, n, i) == start + i * SegmentDays(start, end, n)

\* mutant of SegmentEnd: the "- 1" is missing
SegmentEndNoGap(start, end, n, i) ==
    IF i = n - 1 THEN end
    ELSE start + (i + 1) * SegmentDays(start, end, n)

\* segment_end of segment i (0-based); the last segment ends at end
SegmentEnd(start, end, n, i) ==
    IF i = n - 1 THEN end
    ELSE start + (i + 1) * SegmentDays(start, end, n) - 1

SplitDateRange(sd, ed, n) ==
    LET start == Strptime(sd)
        end   == Strptime(ed)
    IN  [k \in 1..n |->
            <<Strftime(SegmentStart(start, end, n, k - 1)),
              Strftime(SegmentEnd(start, end, n, k - 1))>>]

(***************************************************************************)
(* Inputs of _split_date_range under SpecSplit.                            *)
(***************************************************************************)
WindowStart == <<2023, 12, 28>>

\* a range of a whole year
YearStart == <<2023, 1, 1>>
YearEnd == <<2023, 12, 31>>

SplitStartDates ==
    {Strftime(Strptime(WindowStart) + i) : i \in 0..MaxStartOffset}

\* None where a proxy is expected
NoProxy == 0

\* nothing requested, slept or probed yet
IdleHttp == [tries |-> 0, successes |-> 0, failures |-> 0,
             slept |-> FALSE, unslept |-> FALSE]

IdleGp == [entry |-> 0, pool |-> 0, probes |-> 0, refreshed |-> FALSE,
           vetted |-> NoProxy]

\* no fetch operation is running
\* no request sent yet
NoPace == [unslept |-> FALSE, ok |-> TRUE]

\* no call made yet
NoStoreCall == [op |-> "none", id |-> 0, name |-> "", raised |-> FALSE]

\* an empty store, no directory, no request sent
InitStoreIdle ==
    /\ pace = NoPace
    /\ projects = << >>
    /\ folders = {}
    /\ last_id = 0
    /\ dirs = {}
    /\ foreign_keys = FALSE
    /\ last_call = NoStoreCall
    /\ given = << >>

InitProxyIdle ==
    /\ operation = "none"
    /\ use_proxy = FALSE
    /\ proxies = << >>
    /\ proxy = NoProxy
    /\ http = IdleHttp
    /\ waits = << >>
    /\ last_delay = 0
    /\ gp = IdleGp
    /\ evicted = {}

InitFetchIdle == InitStoreIdle /\ InitProxyIdle

\* no entry is being parsed
InitParseIdle ==
    /\ feed_entry = << >>
    /\ parsed = << >>

\* no file has been written
NoFiles == << >>

InitScholarIdle ==
    /\ save_batch = FALSE
    /\ result_divs = << >>
    /\ batch_results = << >>
    /\ files = NoFiles
    /\ clock = 0

\* set_sort has not been called
NoCall == [by |-> "", order |-> "", raised |-> FALSE,
           before |-> <<"submittedDate", "descending">>]

\* __init__, lines 72-73, and no Paper exported
InitSettingsIdle ==
    /\ sort_by = "submittedDate"
    /\ sort_order = "descending"
    /\ sort_call = NoCall
    /\ export_paper = << >>
    /\ export_row = << >>

InitOtherIdle == InitScholarIdle /\ InitSettingsIdle

\* no mocked source, one call of search
InitMockIdle ==
    /\ catalog = << >>
    /\ failing = 0
    /\ run = 1
    /\ first_returned = << >>

InitIdle ==
    /\ InitMockIdle
    /\ seg_idx = 0
    /\ all_results = << >>
    /\ results = << >>
    /\ start_idx = 0
    /\ current_batch = 0
    /\ attempt = 0
    /\ returned = << >>
    /\ requests = << >>
    /\ received = << >>
    /\ exhausted = 0
    /\ date_ranges = << >>

InitSplit ==
    /\ max_results = 0
    /\ batch_size = 1
    /\ max_retries = 0
    /\ source_left = 0
    /\ pc = "split"
    /\ \/ /\ start_date \in SplitStartDates
          /\ \E span \in 0..MaxSpan :
                 end_date = Strftime(Strptime(start_date) + span)
       \/ /\ start_date = YearStart
          /\ end_date = YearEnd
    /\ segments \in 1..MaxSegments
    /\ InitIdle
    /\ InitFetchIdle
    /\ InitOtherIdle
    /\ InitParseIdle

\* a call _split_date_range(start_date, end_date, segments)
CallSplit ==
    /\ pc = "split"
    /\ ValidDate(start_date) /\ ValidDate(end_date)
    /\ date_ranges' = SplitDateRange(start_date, end_date, segments)
    /\ pc' = "split_done"
    /\ UNCHANGED <<aux, config, seg_idx, all_results, results, start_idx,
                   current_batch, attempt, returned, requests, received,
                   exhausted, source_left>>

NextSplit == CallSplit

SpecSplit == InitSplit /\ [][NextSplit]_vars

(***************************************************************************)
(* The source.  A raw feed entry is [paper_id, published]; published = 0   *)
(* is an entry that _parse_entry rejects.  Paper p was published on day p; *)
(* the source may deliver a paper more than once, so that ties occur.      *)
(***************************************************************************)
PublishedDay(p) == p

RawEntries ==
    {[paper_id |-> 0, published |-> 0]} \cup
    {[paper_id |-> p, published |-> PublishedDay(p)] : p \in 1..NumPapers}

\* the feeds the source may answer a request for n entries with
Pages(n) == UNION {[1..k -> RawEntries] : k \in 0..n}

\* _parse_entry: None (the empty sequence) or one Paper; uid is the identity
\* of the Paper object, the Papers being numbered as they are created
ParseEntry(entry, uid) ==
    IF entry.published = 0 THEN << >>
    ELSE << [paper_id |-> entry.paper_id,
             published_date |-> entry.published,
             uid |-> uid] >>

\* _fetch_batch, lines 253-254: parse every entry, drop the None results
\* (uid0 Papers exist before the call)
RECURSIVE ParseFeed(_, _)
ParseFeed(entries, uid0) ==
    IF entries = << >> THEN << >>
    ELSE LET paper == ParseEntry(Head(entries), uid0 + 1)
         IN  paper \o ParseFeed(Tail(entries), uid0 + Len(paper))

(***************************************************************************)
(* ArxivSearcher._search_segment                                           *)
(***************************************************************************)
\* mutant of WhileCond: the loop goes on at the cap
WhileCondInclusive(n, mr) == n <= mr

\* line 181: while len(results) < self.max_results
WhileCond(n, mr) == n < mr

\* line 246: a GET is sent; it is in order when a sleep came after the GET
\* before it
AfterGet(p) == [unslept |-> TRUE, ok |-> p.ok /\ ~p.unslept]

\* mutant of AfterSleep: no sleep
AfterNoSleep(p) == p

\* lines 155, 199 and 259: time.sleep
AfterSleep(p) == [p EXCEPT !.unslept = FALSE]

\* mutant of CurrentBatch: the capacity is ignored
CurrentBatchUncapped(bs, mr, n) == bs

\* line 183: current_batch
CurrentBatch(bs, mr, n) == Min(bs, mr - n)

\* line 189: if not batch
EmptyBatch(batch) == Len(batch) = 0

\* line 195: if len(batch) < current_batch
ShortBatch(batch, cur) == Len(batch) < cur

\* mutant of NextStart: the offset advances by one page too many
NextStartSkips(idx, batch) == idx + Len(batch) + 1

\* line 198: start_idx += len(batch)
NextStart(idx, batch) == idx + Len(batch)

\* mutant of ResultsAfterError: the segment's records are dropped
ResultsLostOnError(res) == << >>

\* lines 201-205: the handler breaks, and the segment returns what it has
ResultsAfterError(res) == res

\* mutant of OnFetchError: the exception leaves search
FetchErrorPropagates == "raised"

\* lines 201-203: where the call goes on after _fetch_batch raised
OnFetchError == "seg_return"

(***************************************************************************)
(* ArxivSearcher._build_query                                              *)
(***************************************************************************)
\* s.replace('-', '') of a date string 'YYYY-MM-DD', read as a number
DateStamp(s) == s[1] * 10000 + s[2] * 100 + s[3]

\* mutant of DateClause: a clause as soon as one of the dates is given
DateClauseEither(sd, ed) ==
    IF sd # NoDate \/ ed # NoDate THEN <<0, 0>> ELSE << >>

\* lines 219-221: the clause submittedDate:[<start>0000 TO <end>2359] as the
\* pair of its bounds, a bound being <<YYYYMMDD, HHMM>>; the empty tuple
\* when the query has no date clause
DateClause(sd, ed) ==
    IF sd # NoDate /\ ed # NoDate
    THEN << <<DateStamp(sd), 0>>, <<DateStamp(ed), 2359>> >>
    ELSE << >>

(***************************************************************************)
(* ArxivSearcher.search                                                    *)
(***************************************************************************)
\* line 134: if start_date and end_date
BothDates(sd, ed) == sd # NoDate /\ ed # NoDate

\* mutant of CapReached: the loop over the segments is never left early
CapNeverReached(all, mr) == FALSE

\* mutant of CapReached: the loop is left after the first segment
CapAlwaysReached(all, mr) == TRUE

\* line 151: if len(all_results) >= self.max_results
CapReached(all, mr) == Len(all) >= mr

\* line 162: drop None and records without published_date
ValidResults(all) == SelectSeq(all, LAMBDA r : r.published_date # 0)

\* sorted(..., reverse=True) keeps equal keys in their original order:
\* r goes behind every record that is not older than r
RECURSIVE InsertByDate(_, _)
InsertByDate(r, sorted) ==
    IF sorted = << >> THEN <<r>>
    ELSE IF Head(sorted).published_date >= r.published_date
         THEN <<Head(sorted)>> \o InsertByDate(r, Tail(sorted))
         ELSE <<r>> \o sorted

\* mutant of SortedResults: an unstable sort, r goes before its equals
RECURSIVE InsertBeforeEquals(_, _)
InsertBeforeEquals(r, sorted) ==
    IF sorted = << >> THEN <<r>>
    ELSE IF Head(sorted).published_date > r.published_date
         THEN <<Head(sorted)>> \o InsertBeforeEquals(r, Tail(sorted))
         ELSE <<r>> \o sorted

RECURSIVE SortedUnstable(_)
SortedUnstable(all) ==
    IF all = << >> THEN << >>
    ELSE InsertBeforeEquals(all[Len(all)], SortedUnstable(SubSeq(all, 1, Len(all) - 1)))

\* lines 163-167: sorted(valid_results, key=published_date, reverse=True)
RECURSIVE SortedResults(_)
SortedResults(all) ==
    IF all = << >> THEN << >>
    ELSE InsertByDate(all[Len(all)], SortedResults(SubSeq(all, 1, Len(all) - 1)))

\* mutant of Truncate: one record too many
TruncateOneMore(sorted, mr) == SubSeq(sorted, 1, Min(mr + 1, Len(sorted)))

\* line 169: sorted_results[:self.max_results]
Truncate(sorted, mr) == SubSeq(sorted, 1, Min(mr, Len(sorted)))

(***************************************************************************)
(* One call of search.                                                     *)
(***************************************************************************)
BadDate == <<2023, 2, 30>>
StartDates == {NoDate, BadDate, YearStart}
EndDates == {NoDate, YearEnd}

Init ==
    /\ max_results \in 0..MaxMaxResults
    /\ batch_size \in 1..MaxBatchSize
    /\ max_retries \in 0..MaxRetries
    /\ start_date \in StartDates
    /\ end_date \in EndDates
    /\ segments = DefaultSegments
    /\ source_left = MaxSourceEntries
    /\ pc = "call"
    /\ InitIdle
    /\ InitFetchIdle
    /\ InitOtherIdle
    /\ InitParseIdle

history == <<requests, received, exhausted>>

\* lines 131-137, dates given: the planner's segments
SearchSplit ==
    /\ pc = "call"
    /\ BothDates(start_date, end_date)
    /\ ValidDate(start_date) /\ ValidDate(end_date)
    /\ date_ranges' = SplitDateRange(start_date, end_date, segments)
    /\ pc' = "segment"
    /\ UNCHANGED <<aux, config, seg_idx, all_results, results, start_idx,
                   current_batch, attempt, returned, history, source_left>>

\* lines 134-135, strptime raises ValueError: search raises
SearchBadDate ==
    /\ pc = "call"
    /\ BothDates(start_date, end_date)
    /\ ~(ValidDate(start_date) /\ ValidDate(end_date))
    /\ pc' = "raised"
    /\ UNCHANGED <<aux, config, date_ranges, seg_idx, all_results, results,
                   start_idx, current_batch, attempt, returned, history,
                   source_left>>

\* lines 136-137: a single segment (start_date, end_date)
SearchUnsplit ==
    /\ pc = "call"
    /\ ~BothDates(start_date, end_date)
    /\ date_ranges' = << <<start_date, end_date>> >>
    /\ pc' = "segment"
    /\ UNCHANGED <<aux, config, seg_idx, all_results, results, start_idx,
                   current_batch, attempt, returned, history, source_left>>

\* line 139 and lines 177-179: the next segment, _search_segment starts
SegmentNext ==
    /\ pc = "segment"
    /\ seg_idx < Len(date_ranges)
    /\ seg_idx' = seg_idx + 1
    /\ results' = << >>
    /\ start_idx' = 0
    /\ pc' = "while"
    /\ UNCHANGED <<aux, config, date_ranges, all_results, current_batch, attempt,
                   returned, history, source_left>>

\* line 139: the for loop has run out of segments
SegmentsDone ==
    /\ pc = "segment"
    /\ seg_idx = Len(date_ranges)
    /\ pc' = "finish"
    /\ UNCHANGED <<aux, config, date_ranges, seg_idx, all_results, results,
                   start_idx, current_batch, attempt, returned, history,
                   source_left>>

\* the history keeps the latest two requests
Latest(log) == IF Len(log) > 2 THEN Tail(log) ELSE log

\* the number of requests the segment being processed has made
RequestsOfSegment ==
    IF requests # << >> /\ requests[Len(requests)].seg = seg_idx
    THEN requests[Len(requests)].nth
    ELSE 0

\* lines 175 and 181-187: one more batch is asked for with the query of the
\* segment, _fetch_batch is called
RequestBatch ==
    /\ pc = "while"
    /\ WhileCond(Len(results), max_results)
    /\ current_batch' = CurrentBatch(batch_size, max_results, Len(results))
    /\ attempt' = 0
    /\ requests' = Latest(Append(requests,
           [seg |-> seg_idx, nth |-> RequestsOfSegment + 1,
            start |-> start_idx, size |-> current_batch',
            have |-> Len(results), total |-> Len(all_results),
            dates |-> DateClause(date_ranges[seg_idx][1],
                                 date_ranges[seg_idx][2]),
            status |-> "pending", got |-> 0]))
    /\ pc' = "fetch"
    /\ UNCHANGED <<aux, config, date_ranges, seg_idx, all_results, results,
                   start_idx, returned, received, exhausted, source_left>>

\* line 181 false, line 205: the segment has max_results records and
\* returns them; its locals are gone
SegmentFull ==
    /\ pc = "while"
    /\ ~WhileCond(Len(results), max_results)
    /\ pc' = "seg_return"
    /\ start_idx' = 0
    /\ current_batch' = 0
    /\ UNCHANGED <<aux, config, date_ranges, seg_idx, all_results, results,
                   attempt, returned, history, source_left>>

Settle(st, n) ==
    [requests EXCEPT ![Len(requests)].status = st, ![Len(requests)].got = n]

\* lines 244-254 succeed, then lines 189-199; the locals of a function
\* that returns are gone
AttemptOkWith(feed) ==
    /\ pc = "fetch"
    /\ attempt < max_retries
    /\ LET batch == ParseFeed(feed, Len(received))
        IN  /\ received' = received \o batch
            /\ requests' = Settle("ok", Len(batch))
            /\ IF EmptyBatch(batch)
               THEN /\ pc' = "seg_return"
                    /\ start_idx' = 0
                    /\ current_batch' = 0
                    /\ pace' = AfterGet(pace)
                    /\ UNCHANGED results
               ELSE /\ results' = results \o batch
                    /\ IF ShortBatch(batch, current_batch)
                       THEN /\ pc' = "seg_return"
                            /\ start_idx' = 0
                            /\ current_batch' = 0
                            /\ pace' = AfterGet(pace)
                       ELSE /\ start_idx' = NextStart(start_idx, batch)
                            /\ pc' = "while"
                            /\ pace' = AfterSleep(AfterGet(pace))
                            /\ UNCHANGED current_batch
    /\ attempt' = 0
    /\ UNCHANGED <<fetch_aux, config, date_ranges, seg_idx, all_results,
                   returned, exhausted>>

\* the source answers with any feed of at most current_batch entries
AttemptOk ==
    \E feed \in Pages(Min(current_batch, source_left)) :
        /\ AttemptOkWith(feed)
        /\ source_left' = source_left - Len(feed)

\* lines 256-259: the attempt failed and another one follows the retry sleep
AttemptRetry ==
    /\ pc = "fetch"
    /\ attempt < max_retries - 1
    /\ attempt' = attempt + 1
    /\ pace' = AfterSleep(AfterGet(pace))
    /\ UNCHANGED <<fetch_aux, config, pc, date_ranges, seg_idx, all_results,
                   results, start_idx, current_batch, returned, history,
                   source_left>>

\* lines 256-261 and 201-205: the last attempt failed, _fetch_batch raises,
\* _search_segment logs the error, leaves its loop and returns
AttemptsExhausted ==
    /\ pc = "fetch"
    /\ attempt < max_retries
    /\ ~(attempt < max_retries - 1)
    /\ results' = ResultsAfterError(results)
    /\ requests' = Settle("failed", 0)
    /\ exhausted' = exhausted + 1
    /\ pc' = OnFetchError
    /\ attempt' = 0
    /\ start_idx' = 0
    /\ current_batch' = 0
    /\ pace' = AfterGet(pace)
    /\ UNCHANGED <<fetch_aux, config, date_ranges, seg_idx, all_results,
                   returned, received, source_left>>

\* line 263 and 189-190: max_retries = 0, _fetch_batch returns [] at once
NoAttempt ==
    /\ pc = "fetch"
    /\ ~(attempt < max_retries)
    /\ requests' = Settle("ok", 0)
    /\ pc' = "seg_return"
    /\ start_idx' = 0
    /\ current_batch' = 0
    /\ UNCHANGED <<aux, config, date_ranges, seg_idx, all_results, results,
                   attempt, returned, received, exhausted, source_left>>

\* lines 148-155: the segment's records join all_results; the loop is left
\* when the cap is reached, else the inter-segment sleep follows
SegmentReturn ==
    /\ pc = "seg_return"
    /\ all_results' = all_results \o results
    /\ results' = << >>
    /\ pc' = IF CapReached(all_results', max_results) THEN "finish" ELSE "segment"
    /\ pace' = IF CapReached(all_results', max_results) THEN pace
               ELSE AfterSleep(pace)
    /\ UNCHANGED <<fetch_aux, config, date_ranges, seg_idx, start_idx,
                   current_batch, attempt, returned, history, source_left>>

\* lines 161-169: filter, sort, truncate, return
Finish ==
    /\ pc = "finish"
    /\ returned' = Truncate(SortedResults(ValidResults(all_results)), max_results)
    /\ pc' = "done"
    /\ UNCHANGED <<aux, config, date_ranges, seg_idx, all_results, results,
                   start_idx, current_batch, attempt, history, source_left>>

Next ==
    \/ SearchSplit
    \/ SearchBadDate
    \/ SearchUnsplit
    \/ SegmentNext
    \/ SegmentsDone
    \/ RequestBatch
    \/ SegmentFull
    \/ AttemptOk
    \/ AttemptRetry
    \/ AttemptsExhausted
    \/ NoAttempt
    \/ SegmentReturn
    \/ Finish

Spec == Init /\ [][Next]_vars

(***************************************************************************)
(* The fetch operations: ArxivSearcher._fetch_batch and download_pdf, and  *)
(* ScholarScraper._make_request with ProxyManager.get_proxy.  A proxy is a *)
(* number in 1..NumProxies; the pool is a list, in which a proxy may occur *)
(* more than once, the sources being merged without deduplication.         *)
(***************************************************************************)
NumProxies == 2
MaxPool == 2

\* time.sleep((attempt + 1) * 10)
RateLimitBase == 10

\* ScraperConfig.delay_range
DelayMin == 3
DelayMax == 7

ArxivOperations == {"_fetch_batch", "download_pdf"}

Operations == ArxivOperations \cup {"_make_request"}

\* the GETs that are given a timeout: session.get of _make_request and
\* requests.get of _test_proxy; those of _fetch_batch and download_pdf are not
HasTimeout(op) == op \in {"_make_request", "_test_proxy"}

\* what refresh_proxies may leave in the pool: the lists of the sources,
\* merged; a source that fails adds nothing
ProxyLists == UNION {[1..k -> 1..NumProxies] : k \in 0..MaxPool}

\* mutant of InRange: one attempt more than configured
InRangeOneMore(a, mr) == a <= mr

\* for attempt in range(max_retries)
InRange(a, mr) == a < mr

\* if attempt < self.max_retries - 1
RetryLeft(a, mr) == a < mr - 1

\* mutant of AfterLoop: every operation raises when its loop runs out
AfterLoopRaises(op) == "raised"

\* where the call goes when its loop runs out: _fetch_batch returns [],
\* download_pdf raises, _make_request returns None
AfterLoop(op) ==
    CASE op = "_fetch_batch" -> "returned_empty"
      [] op = "download_pdf" -> "raised"
      [] op = "_make_request" -> "returned_none"

\* mutant of RateLimitWait: the same wait after every rate-limit response
RateLimitWaitFlat(a) == RateLimitBase

\* line 172: the wait after a 429 response to the attempt with index a
RateLimitWait(a) == (a + 1) * RateLimitBase

\* lines 125-134: the probe succeeds on status 200 and on nothing else
TestProxy(res) == res = "200"

\* what a probe may meet
ProbeResults == {"200", "status", "exception", "timeout"}

\* mutant of Remove: the failing candidate stays in the pool
RemoveNothing(pool, p) == pool

\* list.remove(p): the first occurrence of p leaves the list
RECURSIVE Remove(_, _)
Remove(pool, p) ==
    IF pool = << >> THEN << >>
    ELSE IF Head(pool) = p THEN Tail(pool)
         ELSE <<Head(pool)>> \o Remove(Tail(pool), p)

\* the history after a GET with the given outcome ("ok", "failed", or
\* "none" when no response ever comes)
Got(h, outcome) ==
    [h EXCEPT !.tries = @ + 1,
              !.unslept = @ \/ (h.tries > 0 /\ ~h.slept),
              !.slept = FALSE,
              !.successes = @ + (IF outcome = "ok" THEN 1 ELSE 0),
              !.failures = @ + (IF outcome = "failed" THEN 1 ELSE 0)]

\* the history after a time.sleep
Slept(h) == [h EXCEPT !.slept = TRUE]

\* what the fetch operations leave alone
search_state == <<max_results, batch_size, start_date, end_date, segments,
                  date_ranges, seg_idx, all_results, results, start_idx,
                  current_batch, returned, requests, received, exhausted,
                  source_left, feed_entry, parsed, other, pace>>

fetch_config == <<max_retries, operation, use_proxy>>

scholar_state == <<proxies, proxy, waits, last_delay, gp, evicted>>

InitFetch ==
    /\ operation \in Operations
    /\ max_retries \in 0..MaxRetries
    /\ use_proxy \in (IF operation = "_make_request" THEN BOOLEAN ELSE {FALSE})
    /\ proxies \in (IF operation = "_make_request" THEN ProxyLists ELSE {<< >>})
    /\ proxy = NoProxy
    /\ http = IdleHttp
    /\ waits = << >>
    /\ last_delay = 0
    /\ gp = IdleGp
    /\ evicted = {}
    /\ pc = "loop"
    /\ max_results = 0
    /\ batch_size = 1
    /\ start_date = NoDate
    /\ end_date = NoDate
    /\ segments = DefaultSegments
    /\ source_left = 0
    /\ InitIdle
    /\ InitParseIdle
    /\ InitOtherIdle
    /\ InitStoreIdle

\* arxiv.py lines 244-254 and 364-377: the GET succeeds, the call returns
ArxivOk ==
    /\ pc = "loop"
    /\ operation \in ArxivOperations
    /\ InRange(attempt, max_retries)
    /\ http' = Got(http, "ok")
    /\ pc' = "returned"
    /\ UNCHANGED <<search_state, fetch_config, scholar_state, attempt>>

\* arxiv.py lines 256-259 and 379-382: the attempt failed, the retry sleep,
\* the next attempt
ArxivRetry ==
    /\ pc = "loop"
    /\ operation \in ArxivOperations
    /\ InRange(attempt, max_retries)
    /\ RetryLeft(attempt, max_retries)
    /\ http' = Slept(Got(http, "failed"))
    /\ attempt' = attempt + 1
    /\ UNCHANGED <<search_state, fetch_config, scholar_state, pc>>

\* arxiv.py lines 260-261 and 383-384: the last attempt failed, the call
\* raises
ArxivExhausted ==
    /\ pc = "loop"
    /\ operation \in ArxivOperations
    /\ InRange(attempt, max_retries)
    /\ ~RetryLeft(attempt, max_retries)
    /\ http' = Got(http, "failed")
    /\ pc' = "raised"
    /\ UNCHANGED <<search_state, fetch_config, scholar_state, attempt>>

\* arxiv.py lines 246 and 367: the server never responds and the GET has no
\* timeout, so the call stays in session.get
ArxivBlocked ==
    /\ pc = "loop"
    /\ operation \in ArxivOperations
    /\ InRange(attempt, max_retries)
    /\ ~HasTimeout(operation)
    /\ http' = Got(http, "none")
    /\ pc' = "blocked"
    /\ UNCHANGED <<search_state, fetch_config, scholar_state, attempt>>

\* arxiv.py lines 263 and 386, google_scholar.py line 183: the loop has run
\* out of attempts
LoopEnd ==
    /\ pc = "loop"
    /\ ~InRange(attempt, max_retries)
    /\ pc' = AfterLoop(operation)
    /\ UNCHANGED <<search_state, fetch_config, scholar_state, attempt, http>>

\* google_scholar.py line 158 without use_proxy: proxy = None
AttemptDirect ==
    /\ pc = "loop"
    /\ operation = "_make_request"
    /\ InRange(attempt, max_retries)
    /\ ~use_proxy
    /\ proxy' = NoProxy
    /\ gp' = IdleGp
    /\ pc' = "get"
    /\ UNCHANGED <<search_state, fetch_config, attempt, http, proxies, waits,
                   last_delay, evicted>>

\* lines 158 and 111 with a pool that is not empty: get_proxy goes to its
\* loop
AttemptWithPool ==
    /\ pc = "loop"
    /\ operation = "_make_request"
    /\ InRange(attempt, max_retries)
    /\ use_proxy
    /\ proxies # << >>
    /\ gp' = [IdleGp EXCEPT !.entry = Len(proxies), !.pool = Len(proxies)]
    /\ proxy' = NoProxy
    /\ pc' = "probe"
    /\ UNCHANGED <<search_state, fetch_config, attempt, http, proxies, waits,
                   last_delay, evicted>>

\* lines 158 and 111-112 with an empty pool: get_proxy refreshes it first
AttemptRefresh ==
    /\ pc = "loop"
    /\ operation = "_make_request"
    /\ InRange(attempt, max_retries)
    /\ use_proxy
    /\ proxies = << >>
    /\ \E pool \in ProxyLists :
           /\ proxies' = pool
           /\ gp' = [IdleGp EXCEPT !.refreshed = TRUE, !.pool = Len(pool)]
    /\ evicted' = {}
    /\ proxy' = NoProxy
    /\ pc' = "probe"
    /\ UNCHANGED <<search_state, fetch_config, attempt, http, waits,
                   last_delay>>

\* lines 114-118: a candidate is drawn and passes its probe, get_proxy
\* returns it
ProbePass ==
    /\ pc = "probe"
    /\ proxies # << >>
    /\ \E i \in DOMAIN proxies : \E res \in ProbeResults :
           /\ TestProxy(res)
           /\ proxy' = proxies[i]
           /\ gp' = [gp EXCEPT !.probes = @ + 1,
                               !.vetted = IF res = "200" THEN proxies[i] ELSE @]
    /\ pc' = "get"
    /\ UNCHANGED <<search_state, fetch_config, attempt, http, proxies, waits,
                   last_delay, evicted>>

\* lines 114-119: a candidate is drawn and fails its probe, it leaves the
\* pool
ProbeFail ==
    /\ pc = "probe"
    /\ proxies # << >>
    /\ \E i \in DOMAIN proxies : \E res \in ProbeResults :
           /\ ~TestProxy(res)
           /\ proxies' = Remove(proxies, proxies[i])
           /\ evicted' = evicted \cup {proxies[i]}
    /\ gp' = [gp EXCEPT !.probes = @ + 1]
    /\ UNCHANGED <<search_state, fetch_config, attempt, http, proxy, waits,
                   last_delay, pc>>

\* lines 114 and 121: the pool is empty, get_proxy raises
NoWorkingProxy ==
    /\ pc = "probe"
    /\ proxies = << >>
    /\ pc' = "no_proxy"
    /\ UNCHANGED <<search_state, fetch_config, attempt, http, scholar_state>>

\* the end of a failed attempt of _make_request: the wait is recorded, the
\* randomized delay of line 181 is slept, the next attempt follows
FailedAttempt(kind, escalating) ==
    /\ waits' = Append(waits, [k |-> attempt + 1, kind |-> kind,
                               escalating |-> escalating])
    /\ \E d \in DelayMin..DelayMax : last_delay' = d
    /\ attempt' = attempt + 1
    /\ proxy' = NoProxy
    /\ gp' = IdleGp
    /\ pc' = "loop"

\* lines 176-181 after get_proxy raised: no GET was made, the pool is
\* refreshed
ScholarNoProxy ==
    /\ pc = "no_proxy"
    /\ http' = Slept([http EXCEPT !.failures = @ + 1])
    /\ \E pool \in ProxyLists : proxies' = pool
    /\ evicted' = {}
    /\ FailedAttempt("exception", 0)
    /\ UNCHANGED <<search_state, fetch_config>>

\* lines 160-169: status 200, the text is returned
ScholarOk ==
    /\ pc = "get"
    /\ http' = Got(http, "ok")
    /\ pc' = "returned"
    /\ UNCHANGED <<search_state, fetch_config, attempt, scholar_state>>

\* lines 170-172 and 181: status 429, the escalating wait, then the
\* randomized delay
ScholarRateLimited ==
    /\ pc = "get"
    /\ http' = Slept(Got(http, "failed"))
    /\ FailedAttempt("rate_limit", RateLimitWait(attempt))
    /\ UNCHANGED <<search_state, fetch_config, proxies, evicted>>

\* lines 173-174 and 181: another status, the randomized delay
ScholarBadStatus ==
    /\ pc = "get"
    /\ http' = Slept(Got(http, "failed"))
    /\ FailedAttempt("status", 0)
    /\ UNCHANGED <<search_state, fetch_config, proxies, evicted>>

\* lines 176-181: the GET raised, a network error or the timeout of line 165
\* when the server does not respond; the pool is refreshed, the randomized
\* delay follows
ScholarException ==
    /\ pc = "get"
    /\ HasTimeout(operation)
    /\ http' = Slept(Got(http, "failed"))
    /\ \E pool \in ProxyLists : proxies' = pool
    /\ evicted' = {}
    /\ FailedAttempt("exception", 0)
    /\ UNCHANGED <<search_state, fetch_config>>

NextFetch ==
    \/ ArxivOk
    \/ ArxivRetry
    \/ ArxivExhausted
    \/ ArxivBlocked
    \/ LoopEnd
    \/ AttemptDirect
    \/ AttemptWithPool
    \/ AttemptRefresh
    \/ ProbePass
    \/ ProbeFail
    \/ NoWorkingProxy
    \/ ScholarNoProxy
    \/ ScholarOk
    \/ ScholarRateLimited
    \/ ScholarBadStatus
    \/ ScholarException

SpecFetch == InitFetch /\ [][NextFetch]_vars

(***************************************************************************)
(* ArxivSearcher._parse_entry.  A string is a sequence of characters.  A   *)
(* field of a feed entry is [kind, value]: kind "missing" when the entry   *)
(* has no such key, "string" or "list" when the value is of the expected   *)
(* type, "other" when it is not (None, a number).  A timestamp string      *)
(* 'YYYY-MM-DDTHH:MM:SSZ' is the tuple <<y, m, d, H, M, S>>, a datetime    *)
(* the pair <<ordinal of the day, second of the day>>.                     *)
(***************************************************************************)
MaxAuthors == 2
MaxTitleLen == 2
MaxItems == 2
MaxClock == 2
MaxRequests == 2

Whitespace == {" ", "\n"}

Chars == Whitespace \cup {"a"}

Strings(n) == UNION {[1..k -> Chars] : k \in 0..n}

\* s.replace('\n', ' ')
ReplaceNewlines(s) == [i \in DOMAIN s |-> IF s[i] = "\n" THEN " " ELSE s[i]]

\* mutant of Strip: the text is kept as it is
StripNothing(s) == s

RECURSIVE LStrip(_)
LStrip(s) ==
    IF s # << >> /\ Head(s) \in Whitespace THEN LStrip(Tail(s)) ELSE s

RECURSIVE RStrip(_)
RStrip(s) ==
    IF s # << >> /\ s[Len(s)] \in Whitespace
    THEN RStrip(SubSeq(s, 1, Len(s) - 1))
    ELSE s

\* s.strip()
Strip(s) == RStrip(LStrip(s))

\* entry.get(key, ''), author.get('name', ''): the value, '' when missing
GetString(field) == IF field.kind = "missing" THEN << >> ELSE field.value

\* entry.get('authors', [])
GetList(field) == IF field.kind = "missing" THEN << >> ELSE field.value

\* datetime.strptime(s, '%Y-%m-%dT%H:%M:%SZ') succeeds
ValidTimestamp(s) ==
    /\ Len(s) = 6
    /\ ValidDate(SubSeq(s, 1, 3))
    /\ s[4] \in 0..23
    /\ s[5] \in 0..59
    /\ s[6] \in 0..61

\* datetime.strptime(s, '%Y-%m-%dT%H:%M:%SZ')
ParseTimestamp(s) ==
    <<Strptime(SubSeq(s, 1, 3)), s[4] * 3600 + s[5] * 60 + s[6]>>

\* lines 275-279: strptime of the field raises ValueError ('' when the key
\* is missing, a malformed string) or TypeError (not a string)
DateRejected(field) ==
    field.kind # "string" \/ ~ValidTimestamp(field.value)

\* mutant of NoAuthors: an empty authors list is let through
NoAuthorsNever(authors) == FALSE

\* line 270: if not authors
NoAuthors(authors) == authors = << >>

\* line 286 raises inside the outer try: the tags cannot be iterated, a tag
\* is not a dict, or its term is not a string (None)
CategoriesRaise(tags) ==
    \/ tags.kind = "other"
    \/ \E i \in DOMAIN GetList(tags) : GetList(tags)[i].kind = "other"

\* line 286: [tag.get('term', '').strip() for tag in entry.get('tags', [])]
Categories(tags) ==
    [i \in DOMAIN GetList(tags) |-> Strip(GetString(GetList(tags)[i]))]

\* lines 289-293: the href of the first link of type application/pdf, ''
\* when there is none; the loop stops at that link
RECURSIVE PdfUrl(_)
PdfUrl(links) ==
    IF links = << >> THEN << >>
    ELSE IF Head(links).pdf THEN GetString(Head(links).href)
         ELSE PdfUrl(Tail(links))

\* a link that is not a dict is reached before a PDF link is found
RECURSIVE BadLinkFirst(_)
BadLinkFirst(links) ==
    /\ links # << >>
    /\ \/ Head(links).kind = "other"
       \/ (~Head(links).pdf /\ BadLinkFirst(Tail(links)))

\* lines 290-291 raise inside the outer try: the links cannot be iterated,
\* or a link that is not a dict is visited
PdfUrlRaises(links) ==
    links.kind = "other" \/ BadLinkFirst(GetList(links))

\* lines 313-315: except Exception, return None
OnParseError == << >>

\* mutant of NoTitle: an empty title is let through
NoTitleNever(title) == FALSE

\* line 283: if not title
NoTitle(title) == title = << >>

\* _parse_entry: None (the empty sequence) or one Paper; an exception raised
\* inside (authors that cannot be iterated, a title that is not a string) is
\* caught at line 313 and gives None
ParseArxivEntry(e) ==
    IF e.authors.kind = "other" THEN << >>
    ELSE LET list    == GetList(e.authors)
             authors == [i \in DOMAIN list |-> Strip(GetString(list[i]))]
         IN  IF NoAuthors(authors) THEN << >>
             ELSE IF DateRejected(e.published) \/ DateRejected(e.updated)
                  THEN << >>
             ELSE IF e.title.kind = "other" THEN << >>
             ELSE LET title == Strip(ReplaceNewlines(GetString(e.title)))
                  IN  IF NoTitle(title) THEN << >>
                      ELSE IF CategoriesRaise(e.tags) \/ PdfUrlRaises(e.links)
                                  \/ e.summary.kind = "other"
                           THEN OnParseError
                      ELSE << [title |-> title,
                               authors |-> authors,
                               abstract |-> Strip(ReplaceNewlines(GetString(e.summary))),
                               pdf_url |-> PdfUrl(GetList(e.links)),
                               published_date |-> ParseTimestamp(e.published.value),
                               updated_date |-> ParseTimestamp(e.updated.value),
                               categories |-> Categories(e.tags),
                               keywords |-> << >>] >>

Missing == [kind |-> "missing", value |-> << >>]

Other == [kind |-> "other", value |-> << >>]

\* the author dicts of an entry: without a name, or named '', ' ' or 'a'
AuthorDicts ==
    {Missing} \cup {[kind |-> "string", value |-> n] : n \in Strings(1) \ {<<"\n">>}}

AuthorsFields ==
    {Missing, Other} \cup
    {[kind |-> "list", value |-> l] :
        l \in UNION {[1..k -> AuthorDicts] : k \in 0..MaxAuthors}}

\* a timestamp, a timestamp of a day that does not exist, a date without
\* the time
TimestampStrings ==
    {<<2023, 1, 1, 12, 30, 0>>, <<2023, 2, 30, 0, 0, 0>>, <<2023, 1, 1>>}

DateFields ==
    {Missing, Other} \cup {[kind |-> "string", value |-> t] : t \in TimestampStrings}

TitleFields ==
    {Missing, Other} \cup
    {[kind |-> "string", value |-> t] : t \in Strings(MaxTitleLen)}

SummaryFields ==
    {Missing, Other} \cup
    {[kind |-> "string", value |-> t] : t \in Strings(MaxTitleLen + 1)}

\* the tag dicts of an entry: without a term, with the term 'a', or with a
\* term that is None
TagDicts == {Missing, [kind |-> "string", value |-> <<"a">>], Other}

TagsFields ==
    {Missing, Other} \cup
    {[kind |-> "list", value |-> l] :
        l \in UNION {[1..k -> TagDicts] : k \in 0..MaxItems}}

\* the links of an entry: a PDF link with and without href, a link of
\* another type, and an element that is not a dict
LinkDicts ==
    {[kind |-> "dict", pdf |-> TRUE, href |-> [kind |-> "string", value |-> <<"a">>]],
     [kind |-> "dict", pdf |-> TRUE, href |-> Missing],
     [kind |-> "dict", pdf |-> FALSE, href |-> [kind |-> "string", value |-> <<"a">>]],
     [kind |-> "other", pdf |-> FALSE, href |-> Missing]}

LinksFields ==
    {Missing, Other} \cup
    {[kind |-> "list", value |-> l] :
        l \in UNION {[1..k -> LinkDicts] : k \in 0..MaxItems}}

\* an entry field of each kind that passes the checks
GoodAuthors == [kind |-> "list", value |-> <<[kind |-> "string", value |-> <<"a">>]>>]
GoodDate == [kind |-> "string", value |-> <<2023, 1, 1, 12, 30, 0>>]
GoodText == [kind |-> "string", value |-> <<"a">>]

\* the entries given to _parse_entry: every combination of authors, dates
\* and title with a plain rest, and, with authors, dates and title that
\* pass, every summary and every combination of tags and links
FeedEntries ==
    [authors : AuthorsFields, published : DateFields, updated : DateFields,
     title : TitleFields, summary : {GoodText}, tags : {Missing},
     links : {Missing}]
    \cup
    [authors : {GoodAuthors}, published : {GoodDate}, updated : {GoodDate},
     title : {GoodText}, summary : SummaryFields, tags : {Missing},
     links : {Missing}]
    \cup
    [authors : {GoodAuthors}, published : {GoodDate}, updated : {GoodDate},
     title : {GoodText}, summary : {GoodText}, tags : TagsFields,
     links : LinksFields]

InitParse ==
    /\ feed_entry \in FeedEntries
    /\ parsed = << >>
    /\ pc = "parse"
    /\ max_results = 0
    /\ batch_size = 1
    /\ max_retries = 0
    /\ start_date = NoDate
    /\ end_date = NoDate
    /\ segments = DefaultSegments
    /\ source_left = 0
    /\ InitIdle
    /\ InitFetchIdle
    /\ InitOtherIdle

\* a call _parse_entry(feed_entry)
CallParse ==
    /\ pc = "parse"
    /\ parsed' = ParseArxivEntry(feed_entry)
    /\ pc' = "parse_done"
    /\ UNCHANGED <<config, seg_idx, all_results, results, start_idx,
                   current_batch, attempt, returned, requests, received,
                   exhausted, source_left, date_ranges, operation, use_proxy,
                   proxies, proxy, http, waits, last_delay, gp, evicted,
                   feed_entry, other, pace>>

NextParse == CallParse

SpecParse == InitParse /\ [][NextParse]_vars

(***************************************************************************)
(* ScholarScraper: _parse_paper_details, search and _save_batch.  A result *)
(* div is a record of what the selectors of _parse_paper_details find in   *)
(* it; text holds the words that tell one div from another.                *)
(***************************************************************************)
\* lines 4-15: the imports of google_scholar.py; re is not among them
ReImported == FALSE

\* the kinds of result div of a page: a div with a title link only, a div as
\* Scholar serves it (title link, author line with a year, citation line),
\* and a div whose title link has no href
DivKinds ==
    {[title_elem |-> "link", author_text |-> "", year |-> "None",
      citations_elem |-> FALSE, cited_by |-> "0"],
     [title_elem |-> "link", author_text |-> "A Author - 2020", year |-> "2020",
      citations_elem |-> TRUE, cited_by |-> "7"],
     [title_elem |-> "no_href", author_text |-> "", year |-> "None",
      citations_elem |-> FALSE, cited_by |-> "0"]}

\* the pages a request can be answered with: up to batch_size + 1 result
\* divs (the request does not tell the source the batch size)
ScholarPages(bs) == UNION {[1..k -> DivKinds] : k \in 1..(bs + 1)}

\* line 251: the result divs of the page served as the n-th request
ResultDivs(page, n) ==
    [i \in DOMAIN page |->
        [kind |-> page[i], text |-> "p" \o ToString(n) \o "." \o ToString(i)]]

\* lines 187-215 raise: KeyError of title_elem['href'] (line 191), NameError
\* of re.search (lines 200 and 209)
PaperDetailsRaise(div) ==
    \/ div.kind.title_elem = "no_href"
    \/ (div.kind.author_text # "" /\ ~ReImported)
    \/ (div.kind.citations_elem /\ ~ReImported)

\* _parse_paper_details: the dict of the div, or None (<< >>) when an
\* exception is caught (lines 225-227)
ParsePaperDetails(div) ==
    IF PaperDetailsRaise(div) THEN << >>
    ELSE << [title     |-> IF div.kind.title_elem = "none" THEN "No title"
                           ELSE div.text,
             url       |-> IF div.kind.title_elem = "none" THEN "None"
                           ELSE "href " \o div.text,
             authors   |-> div.kind.author_text,
             year      |-> IF div.kind.author_text # "" THEN div.kind.year
                           ELSE "None",
             citations |-> IF div.kind.citations_elem THEN div.kind.cited_by
                           ELSE "0",
             abstract  |-> "abstract " \o div.text] >>

\* lines 256-260: batch_results of the divs, in their order
RECURSIVE ParseDivs(_)
ParseDivs(divs) ==
    IF divs = << >> THEN << >>
    ELSE ParsePaperDetails(Head(divs)) \o ParseDivs(Tail(divs))

\* mutant of ScholarWhile: one more round
ScholarWhileInclusive(start, mr) == start <= mr

\* line 234: while start < max_results
ScholarWhile(start, mr) == start < mr

\* line 284: fieldnames
Fieldnames == <<"title", "url", "authors", "year", "citations", "abstract">>

\* csv.DictWriter.writerows: the values of each dict in the order of
\* fieldnames
Rows(batch) ==
    [i \in DOMAIN batch |-> [j \in DOMAIN Fieldnames |-> batch[i][Fieldnames[j]]]]

\* line 283: the file of this second exists, so fieldnames is not assigned
\* and line 291 raises UnboundLocalError
SaveBatchRaises(fs, now) == now \in DOMAIN fs

\* lines 283-292 for a new file: the header, then the rows of the batch
SaveBatch(fs, now, batch) == (now :> (<<Fieldnames>> \o Rows(batch))) @@ fs

\* the kind of result div that _parse_paper_details accepts
PlainDiv == CHOOSE k \in DivKinds : k.title_elem = "link" /\ k.author_text = ""

\* a batch of k records, as search hands it to _save_batch
PlainBatch(k, n) == ParseDivs(ResultDivs([i \in 1..k |-> PlainDiv], n))

\* a file left in this second by an earlier call of _save_batch
EarlierFile == SaveBatch(NoFiles, 0, PlainBatch(1, 0))

InitScholar ==
    /\ max_results \in 0..MaxMaxResults
    /\ batch_size \in 1..MaxBatchSize
    /\ save_batch \in BOOLEAN
    /\ files \in {NoFiles, EarlierFile}
    /\ clock = 0
    /\ result_divs = << >>
    /\ batch_results = << >>
    /\ pc = "s_loop"
    /\ InitSettingsIdle
    /\ max_retries = 0
    /\ start_date = NoDate
    /\ end_date = NoDate
    /\ segments = DefaultSegments
    /\ source_left = 0
    /\ InitIdle
    /\ InitFetchIdle
    /\ InitParseIdle

\* what a round of search leaves alone
scholar_rest == <<max_results, batch_size, max_retries, start_date, end_date,
                  segments, date_ranges, seg_idx, all_results, current_batch,
                  attempt, received, exhausted, source_left, operation,
                  use_proxy, proxies, proxy, http, waits, last_delay, gp,
                  evicted, feed_entry, parsed, save_batch, settings, mock,
                  store, pace>>

\* lines 237-245: the request of this round
ScholarRequested ==
    /\ pc = "s_loop"
    /\ ScholarWhile(start_idx, max_results)
    /\ requests' = Append(requests, [start |-> start_idx])

\* lines 247-248: _make_request returned None
ScholarNoHtml ==
    /\ ScholarRequested
    /\ pc' = "s_break"
    /\ UNCHANGED <<scholar_rest, results, start_idx, returned, result_divs,
                   batch_results, files, clock>>

\* lines 250-254: the page has no result div
ScholarNoDivs ==
    /\ ScholarRequested
    /\ result_divs' = << >>
    /\ pc' = "s_break"
    /\ UNCHANGED <<scholar_rest, results, start_idx, returned, batch_results,
                   files, clock>>

\* lines 250-273: a page with result divs is parsed, saved when save_batch
\* is set and the batch is not empty, and the loop ends on a short batch or
\* goes on after a sleep of 3 to 7 seconds
ScholarBatch ==
    /\ ScholarRequested
    /\ \E page \in ScholarPages(batch_size) :
          LET divs   == ResultDivs(page, Len(requests) + 1)
              batch  == ParseDivs(divs)
              saving == save_batch /\ batch # << >>
              short  == Len(batch) < batch_size
          IN  /\ ~(saving /\ SaveBatchRaises(files, clock))
              /\ result_divs' = divs
              /\ batch_results' = batch
              /\ results' = results \o batch
              /\ files' = IF saving THEN SaveBatch(files, clock, batch) ELSE files
              /\ pc' = IF short THEN "s_break" ELSE "s_loop"
              /\ start_idx' = IF short THEN start_idx ELSE start_idx + batch_size
              /\ clock' = IF short THEN clock ELSE clock + 1
    /\ UNCHANGED <<scholar_rest, returned>>

\* lines 262-266 and 290-291: _save_batch raises out of search
ScholarSaveRaises ==
    /\ ScholarRequested
    /\ \E page \in ScholarPages(batch_size) :
          LET divs  == ResultDivs(page, Len(requests) + 1)
              batch == ParseDivs(divs)
          IN  /\ save_batch /\ batch # << >>
              /\ SaveBatchRaises(files, clock)
              /\ result_divs' = divs
              /\ batch_results' = batch
              /\ results' = results \o batch
    /\ pc' = "s_raised"
    /\ UNCHANGED <<scholar_rest, start_idx, returned, files, clock>>

\* line 275: return results[:max_results]
ScholarReturn ==
    /\ \/ pc = "s_break"
       \/ (pc = "s_loop" /\ ~ScholarWhile(start_idx, max_results))
    /\ returned' = Truncate(results, max_results)
    /\ pc' = "s_done"
    /\ UNCHANGED <<scholar_rest, results, start_idx, requests, result_divs,
                   batch_results, files, clock>>

NextScholar ==
    \/ ScholarNoHtml
    \/ ScholarNoDivs
    \/ ScholarBatch
    \/ ScholarSaveRaises
    \/ ScholarReturn

SpecScholar == InitScholar /\ [][NextScholar]_vars

(***************************************************************************)
(* A sequence of calls of _save_batch, as the searches of one process make *)
(* them: the clock may or may not have reached the next second between two *)
(* calls.                                                                  *)
(***************************************************************************)
InitSink ==
    /\ files = NoFiles
    /\ clock = 0
    /\ batch_results = << >>
    /\ save_batch = TRUE
    /\ result_divs = << >>
    /\ pc = "sink"
    /\ InitSettingsIdle
    /\ max_results = 0
    /\ batch_size = 1
    /\ max_retries = 0
    /\ start_date = NoDate
    /\ end_date = NoDate
    /\ segments = DefaultSegments
    /\ source_left = 0
    /\ InitIdle
    /\ InitFetchIdle
    /\ InitParseIdle

sink_rest == <<scholar_rest, results, start_idx, returned, requests,
               result_divs>>

\* _save_batch(batch) when no file of this second exists: lines 283-292
SinkCreate ==
    /\ pc = "sink"
    /\ ~SaveBatchRaises(files, clock)
    /\ \E k \in 1..MaxBatchSize, n \in 1..NumPapers :
          /\ batch_results' = PlainBatch(k, n)
          /\ files' = SaveBatch(files, clock, PlainBatch(k, n))
    /\ UNCHANGED <<sink_rest, pc, clock>>

\* _save_batch(batch) when the file of this second exists: line 291 raises
SinkAppendRaises ==
    /\ pc = "sink"
    /\ SaveBatchRaises(files, clock)
    /\ \E k \in 1..MaxBatchSize, n \in 1..NumPapers :
          batch_results' = PlainBatch(k, n)
    /\ pc' = "sink_raised"
    /\ UNCHANGED <<sink_rest, files, clock>>

\* a second passes
SinkTick ==
    /\ pc = "sink"
    /\ clock < MaxClock
    /\ clock' = clock + 1
    /\ UNCHANGED <<sink_rest, pc, files, batch_results>>

NextSink == SinkCreate \/ SinkAppendRaises \/ SinkTick

SpecSink == InitSink /\ [][NextSink]_vars

(***************************************************************************)
(* Two calls of search with the same arguments on one ArxivSearcher,       *)
(* against a mocked source: the source holds the entries of catalog for    *)
(* the query of every segment and serves them by start and max_results;    *)
(* every request for the segment failing fails.                            *)
(***************************************************************************)
Catalogs == UNION {[1..k -> RawEntries] : k \in 0..NumPapers}

\* the feed of a request for size entries from offset start
Served(start, size) ==
    SubSeq(catalog, start + 1, Min(start + size, Len(catalog)))

\* mutant of StartResults: the records of the call before are kept
StartResultsKept(before) == before

\* line 131: all_results = []
StartResults(before) == << >>

InitTwice ==
    /\ max_results \in 0..MaxMaxResults
    /\ batch_size \in 1..MaxBatchSize
    /\ max_retries = MaxRetries
    /\ \/ start_date = NoDate /\ end_date = NoDate
       \/ start_date = YearStart /\ end_date = YearEnd
    /\ segments = DefaultSegments
    /\ source_left = 0
    /\ catalog \in Catalogs
    /\ failing \in 0..2
    /\ run = 1
    /\ first_returned = << >>
    /\ pc = "call"
    /\ seg_idx = 0
    /\ all_results = << >>
    /\ results = << >>
    /\ start_idx = 0
    /\ current_batch = 0
    /\ attempt = 0
    /\ returned = << >>
    /\ requests = << >>
    /\ received = << >>
    /\ exhausted = 0
    /\ date_ranges = << >>
    /\ InitFetchIdle
    /\ InitParseIdle
    /\ InitScholarIdle
    /\ InitSettingsIdle

\* the mocked source answers the request
TwiceOk ==
    /\ seg_idx # failing
    /\ AttemptOkWith(Served(start_idx, current_batch))
    /\ UNCHANGED source_left

\* the mocked source fails the request, another attempt follows
TwiceRetry == seg_idx = failing /\ AttemptRetry

\* the mocked source fails the last attempt of the request
TwiceExhausted == seg_idx = failing /\ AttemptsExhausted

\* the second call of search: lines 131-132; the locals of the first call
\* are gone
SearchAgain ==
    /\ pc = "done"
    /\ run = 1
    /\ run' = 2
    /\ first_returned' = returned
    /\ all_results' = StartResults(all_results)
    /\ date_ranges' = << >>
    /\ seg_idx' = 0
    /\ returned' = << >>
    /\ requests' = << >>
    /\ pace' = NoPace
    /\ pc' = "call"
    /\ UNCHANGED <<config, results, start_idx, current_batch, attempt,
                   received, exhausted, source_left, operation, use_proxy,
                   proxies, proxy, http, waits, last_delay, gp, evicted,
                   feed_entry, parsed, save_batch, result_divs, batch_results,
                   files, clock, settings, catalog, failing, store>>

NextTwice ==
    \/ SearchSplit
    \/ SearchUnsplit
    \/ SegmentNext
    \/ SegmentsDone
    \/ RequestBatch
    \/ SegmentFull
    \/ TwiceOk
    \/ TwiceRetry
    \/ TwiceExhausted
    \/ SegmentReturn
    \/ Finish
    \/ SearchAgain

SpecTwice == InitTwice /\ [][NextTwice]_vars

(***************************************************************************)
(* ArxivSearcher.set_sort and the sort parameters of a request.            *)
(***************************************************************************)
\* line 86: valid_sort
ValidSort == {"relevance", "lastUpdatedDate", "submittedDate"}

\* the arguments given to set_sort
SortKeys == ValidSort \cup {"citations"}
SortOrders == {"ascending", "descending", "sideways"}

\* mutant of SortKeyValid: every key is taken
SortKeyAny(by) == TRUE

\* line 87: by in valid_sort
SortKeyValid(by) == by \in ValidSort

InitSort ==
    /\ InitSettingsIdle
    /\ InitScholarIdle
    /\ pc = "sort"
    /\ max_results = 0
    /\ batch_size = 1
    /\ max_retries = 0
    /\ start_date = NoDate
    /\ end_date = NoDate
    /\ segments = DefaultSegments
    /\ source_left = 0
    /\ InitIdle
    /\ InitFetchIdle
    /\ InitParseIdle

sort_rest == <<max_results, batch_size, max_retries, start_date, end_date,
               segments, date_ranges, seg_idx, all_results, current_batch,
               attempt, received, exhausted, source_left, operation,
               use_proxy, proxies, proxy, http, waits, last_delay, gp,
               evicted, feed_entry, parsed, save_batch, results, start_idx,
               returned, result_divs, batch_results, files, clock,
               export_paper, export_row, pc, mock, store, pace>>

\* lines 87-90: set_sort(by, order) with a key of valid_sort
SetSortOk ==
    /\ pc = "sort"
    /\ \E by \in SortKeys, order \in SortOrders :
          /\ SortKeyValid(by)
          /\ sort_by' = by
          /\ sort_order' = order
          /\ sort_call' = [by |-> by, order |-> order, raised |-> FALSE,
                           before |-> <<sort_by, sort_order>>]
    /\ UNCHANGED <<sort_rest, requests>>

\* lines 87-88: set_sort(by, order) raises ValueError
SetSortRaises ==
    /\ pc = "sort"
    /\ \E by \in SortKeys, order \in SortOrders :
          /\ ~SortKeyValid(by)
          /\ sort_call' = [by |-> by, order |-> order, raised |-> TRUE,
                           before |-> <<sort_by, sort_order>>]
    /\ UNCHANGED <<sort_rest, requests, sort_by, sort_order>>

\* lines 234-240: the sort parameters of a request of _fetch_batch
SortRequest ==
    /\ pc = "sort"
    /\ Len(requests) < MaxRequests
    /\ requests' = Append(requests, [sortBy |-> sort_by, sortOrder |-> sort_order])
    /\ UNCHANGED <<sort_rest, sort_by, sort_order, sort_call>>

NextSort == SetSortOk \/ SetSortRaises \/ SortRequest

SpecSort == InitSort /\ [][NextSort]_vars

(***************************************************************************)
(* Paper.to_dict, as save_papers calls it for every Paper (line 323).      *)
(* Texts are sequences of characters.                                      *)
(***************************************************************************)
\* lines 47-58: the separator '; '
Separator == <<";", " ">>

\* the texts of the list-valued fields: with and without the characters of
\* the separator
ExportStrings == UNION {[1..k -> {"a", ";", " "}] : k \in 0..MaxTitleLen}

ExportLists == UNION {[1..k -> ExportStrings] : k \in 0..MaxItems}

\* mutant of Join: the separator is ';'
RECURSIVE JoinNoSpace(_)
JoinNoSpace(list) ==
    IF list = << >> THEN << >>
    ELSE IF Len(list) = 1 THEN list[1]
    ELSE list[1] \o <<";">> \o JoinNoSpace(Tail(list))

\* '; '.join(list)
RECURSIVE Join(_)
Join(list) ==
    IF list = << >> THEN << >>
    ELSE IF Len(list) = 1 THEN list[1]
    ELSE list[1] \o Separator \o Join(Tail(list))

\* a field that is None (the default of references, line 39)
None == [kind |-> "none", value |-> << >>]

\* lines 55 and 58: 'if self.keywords', 'if self.references'
Truthy(field) == field.kind = "list" /\ field.value # << >>

\* lines 44-60: the scalar fields as they are, the list-valued fields joined
ToDict(p) ==
    [paper_id   |-> p.paper_id,
     title      |-> p.title,
     citations  |-> p.citations,
     authors    |-> Join(p.authors.value),
     categories |-> Join(p.categories.value),
     keywords   |-> IF Truthy(p.keywords) THEN Join(p.keywords.value) ELSE << >>,
     references |-> IF Truthy(p.references) THEN Join(p.references.value)
                    ELSE << >>]

ListFields == {"authors", "categories", "keywords", "references"}

\* a Paper with one author, one category, one keyword and one reference
PlainPaper ==
    [paper_id |-> <<"a">>, title |-> <<"a">>, citations |-> 0,
     authors |-> [kind |-> "list", value |-> << <<"a">> >>],
     categories |-> [kind |-> "list", value |-> << <<"a">> >>],
     keywords |-> [kind |-> "list", value |-> << <<"a">> >>],
     references |-> [kind |-> "list", value |-> << <<"a">> >>]]

\* the Papers exported: every text as title, every list as authors and as
\* keywords, every list of at most one text as categories and as references,
\* and None as keywords and as references
ExportPapers ==
    {[PlainPaper EXCEPT !.title = t, !.citations = c] :
        t \in ExportStrings, c \in 0..1}
    \cup {[PlainPaper EXCEPT ![f] = [kind |-> "list", value |-> l]] :
            f \in {"authors", "keywords"}, l \in ExportLists}
    \cup {[PlainPaper EXCEPT ![f] = [kind |-> "list", value |-> l]] :
            f \in {"categories", "references"},
            l \in {<< >>} \cup {<<t>> : t \in ExportStrings}}
    \cup {[PlainPaper EXCEPT ![f] = None] : f \in {"keywords", "references"}}

InitExport ==
    /\ export_paper \in ExportPapers
    /\ export_row = << >>
    /\ sort_by = "submittedDate"
    /\ sort_order = "descending"
    /\ sort_call = NoCall
    /\ InitScholarIdle
    /\ pc = "export"
    /\ max_results = 0
    /\ batch_size = 1
    /\ max_retries = 0
    /\ start_date = NoDate
    /\ end_date = NoDate
    /\ segments = DefaultSegments
    /\ source_left = 0
    /\ InitIdle
    /\ InitFetchIdle
    /\ InitParseIdle

\* line 323: paper.to_dict()
CallToDict ==
    /\ pc = "export"
    /\ export_row' = ToDict(export_paper)
    /\ pc' = "exported"
    /\ UNCHANGED <<config, date_ranges, seg_idx, all_results, results,
                   start_idx, current_batch, attempt, returned, requests,
                   received, exhausted, source_left, operation, use_proxy,
                   proxies, proxy, http, waits, last_delay, gp, evicted,
                   feed_entry, parsed, save_batch, result_divs, batch_results,
                   files, clock, sort_by, sort_order, sort_call, export_paper,
                   mock, store, pace>>

NextExport == CallToDict

SpecExport == InitExport /\ [][NextExport]_vars

(***************************************************************************)
(* A call of search of either source.                                      *)
(***************************************************************************)
InitSearch == Init \/ InitScholar

NextSearch == Next \/ NextScholar

SpecSearch == InitSearch /\ [][NextSearch]_vars

(***************************************************************************)
(* Properties of search.                                                   *)
(***************************************************************************)
InSeq(r, seq) == \E i \in DOMAIN seq : seq[i] = r

\* the place of record r in the order of accumulation
PosIn(r, seq) == CHOOSE i \in DOMAIN seq : seq[i] = r

\* r comes before q when all_results is sorted by published_date descending
\* with ties in the order of accumulation
RanksBefore(r, q) ==
    \/ r.published_date > q.published_date
    \/ /\ r.published_date = q.published_date
       /\ PosIn(r, all_results) < PosIn(q, all_results)

\* C1: the returned list has min(max_results, number of valid records the
\* search found) elements, the records found being those parsed from the
\* successful responses of all segments.
ResultLength ==
    pc = "done" => Len(returned) = Min(max_results, Len(received))

\* C1 witness: the search found more records than max_results and returned
WitnessResultLength ==
    /\ pc = "done"
    /\ max_results > 0
    /\ Len(received) > max_results
    /\ exhausted > 0

\* C2: the returned list is in descending published_date order, equal dates
\* in accumulation order, and it is the first max_results records of that
\* order: every accumulated record that was dropped ranks behind every
\* record that was kept.
SortedStableTruncated ==
    pc = "done" =>
        /\ \A i \in DOMAIN returned : InSeq(returned[i], all_results)
        /\ \A i, j \in DOMAIN returned :
               i < j => RanksBefore(returned[i], returned[j])
        /\ \A i \in DOMAIN all_results : \A j \in DOMAIN returned :
               ~InSeq(all_results[i], returned) =>
                   /\ RanksBefore(returned[j], all_results[i])
                   /\ all_results[i].published_date <= returned[j].published_date
        /\ Len(returned) = Min(max_results, Len(all_results))

\* C2 witness: a tie was returned, a record was dropped, and the accumulated
\* order was not the returned one
WitnessSortedStableTruncated ==
    /\ pc = "done"
    /\ \E i, j \in DOMAIN returned :
           i < j /\ returned[i].published_date = returned[j].published_date
    /\ \E i \in DOMAIN all_results : ~InSeq(all_results[i], returned)
    /\ \E i, j \in DOMAIN all_results :
           i < j /\ all_results[i].published_date < all_results[j].published_date

\* C3 as claimed: every batch request asks for min(batch_size, max_results
\* minus the records collected so far in all segments).
BatchSizeOverallCapacity ==
    \A i \in DOMAIN requests :
        requests[i].size =
            Min(batch_size, max_results - (requests[i].total + requests[i].have))

\* C3 amended: every batch request asks for min(batch_size, max_results minus
\* the records collected so far in the current segment); records of earlier
\* segments do not count.
BatchSizeSegmentCapacity ==
    \A i \in DOMAIN requests :
        requests[i].size = Min(batch_size, max_results - requests[i].have)

\* C3 witness: a request of a later segment, with records of earlier
\* segments collected, that the capacity of its own segment cut short
WitnessBatchSizeSegmentCapacity ==
    \E i \in DOMAIN requests :
        /\ requests[i].seg > 1
        /\ requests[i].total > 0
        /\ requests[i].have > 0
        /\ requests[i].size < batch_size

\* the segments appear in the request history in planner order, none
\* entered twice
SegmentsInOrder ==
    /\ \A i, j \in DOMAIN requests : i < j => requests[i].seg <= requests[j].seg
    /\ \A i \in DOMAIN requests :
           requests[i].seg \in 1..seg_idx /\ seg_idx <= Len(date_ranges)

\* C4 as claimed: segments in planner order, and no batch request is issued
\* once the records collected in all segments, the current one included,
\* have reached max_results.
NoRequestAtOverallCap ==
    /\ SegmentsInOrder
    /\ \A i \in DOMAIN requests :
           requests[i].total + requests[i].have < max_results

\* C4 amended: segments in planner order; no later segment is entered once
\* the records of the completed segments have reached max_results, and within a
\* segment no batch is requested once that segment alone has collected
\* max_results records.
NoRequestAtSegmentCap ==
    /\ SegmentsInOrder
    /\ \A i \in DOMAIN requests :
           /\ requests[i].total < max_results
           /\ requests[i].have < max_results
    /\ (pc \in {"while", "fetch"} /\ seg_idx > 1) => Len(all_results) < max_results

\* C4 witness: the search stopped early, with segments left unrequested
WitnessNoRequestAtSegmentCap ==
    /\ pc = "done"
    /\ Len(date_ranges) = DefaultSegments
    /\ seg_idx = 2
    /\ Len(all_results) >= max_results
    /\ \E i \in DOMAIN requests : requests[i].seg = 2 /\ requests[i].total > 0

LastRequest == requests[Len(requests)]

\* C5: a segment's first request is at offset 0; a request follows another
\* of the same segment only after a full batch, at the previous offset plus
\* the batch size; after a short batch the records are in the segment's
\* results and the segment is over, and so it is after an empty batch.
Pagination ==
    /\ \A i \in DOMAIN requests :
           /\ requests[i].nth = 1 => requests[i].start = 0
           /\ requests[i].nth > 1 => requests[i].start > 0
           /\ i > 1 =>
                  IF requests[i - 1].seg # requests[i].seg
                  THEN requests[i].nth = 1
                  ELSE /\ requests[i].nth = requests[i - 1].nth + 1
                       /\ requests[i - 1].status = "ok"
                       /\ requests[i - 1].got = requests[i - 1].size
                       /\ requests[i].start =
                              requests[i - 1].start + requests[i - 1].size
           /\ (i = 1 /\ Len(requests) = 1) => requests[i].nth = 1
    /\ (pc = "while" /\ requests # << >> /\ LastRequest.seg = seg_idx) =>
           /\ LastRequest.got = LastRequest.size
           /\ start_idx = LastRequest.start + LastRequest.size
    /\ (pc = "while" /\ (requests = << >> \/ LastRequest.seg # seg_idx)) =>
           start_idx = 0
    /\ (pc \in {"while", "seg_return"} /\ requests # << >>
            /\ LastRequest.seg = seg_idx /\ LastRequest.status = "ok") =>
           Len(results) = LastRequest.have + LastRequest.got
    /\ (pc = "seg_return" /\ requests # << >> /\ LastRequest.seg = seg_idx
            /\ LastRequest.status = "ok" /\ LastRequest.got = LastRequest.size) =>
           (Len(results) >= max_results \/ LastRequest.got = 0)

\* C5 witness: a full batch, the next request one batch further, and a
\* batch short of its request that ended the segment
WitnessPagination ==
    /\ pc = "seg_return"
    /\ \E i \in DOMAIN requests :
           /\ i > 1
           /\ i = Len(requests)
           /\ requests[i].seg = requests[i - 1].seg
           /\ requests[i].start = batch_size
           /\ requests[i].status = "ok"
           /\ requests[i].got < requests[i].size
           /\ Len(results) = requests[i - 1].got + requests[i].got

\* C6: a batch failure is never propagated out of search, and once the
\* search is past a failed segment with capacity remaining, the next
\* request in the history is the first one of the following segment.
FailureEndsSegmentOnly ==
    /\ exhausted > 0 => pc # "raised"
    /\ \A i \in DOMAIN requests :
           (/\ requests[i].status = "failed"
            /\ requests[i].seg < Len(date_ranges)
            /\ requests[i].total + requests[i].have < max_results
            /\ (seg_idx > requests[i].seg \/ pc \in {"finish", "done"})
            /\ ~(pc = "while" /\ i = Len(requests))) =>
               /\ i < Len(requests)
               /\ requests[i + 1].seg = requests[i].seg + 1
               /\ requests[i + 1].start = 0

\* C6 witness: a failed batch in one segment, a successful one in the next
WitnessFailureEndsSegmentOnly ==
    /\ pc = "done"
    /\ \E i \in DOMAIN requests :
           /\ requests[i].status = "failed"
           /\ i < Len(requests)
           /\ requests[i + 1].seg = requests[i].seg + 1
           /\ requests[i + 1].status = "ok"
           /\ requests[i + 1].got > 0

\* C7: no record parsed from a successful batch is lost: the records
\* received are the accumulated ones at every point of the search, and
\* search returns every one of them unless it returns max_results records.
RecordsSurviveFailures ==
    /\ pc \in {"segment", "while", "fetch", "seg_return", "finish", "done"} =>
           received = all_results \o results
    /\ pc = "done" =>
           \/ Len(returned) = max_results
           \/ \A i \in DOMAIN received : InSeq(received[i], returned)

\* C7 witness: a batch failed after an earlier batch of its segment, other
\* segments delivered too, and everything received was returned
WitnessRecordsSurviveFailures ==
    /\ pc = "done"
    /\ Len(returned) < max_results
    /\ \E i \in DOMAIN requests :
           /\ requests[i].status = "failed"
           /\ requests[i].have > 0
           /\ Len(returned) > requests[i].have

\* every segment ended in a fetch that exhausted its retries, none succeeded
AllSegmentsExhausted ==
    /\ date_ranges # << >>
    /\ exhausted = Len(date_ranges)
    /\ received = << >>
    /\ \A i \in DOMAIN requests : requests[i].status = "failed"

ConfigurationError ==
    BothDates(start_date, end_date) /\ ~(ValidDate(start_date) /\ ValidDate(end_date))

\* C8 as claimed: when every segment's fetches exhaust their retries, search
\* raises; only configuration errors and this exhaustion raise.
TotalExhaustionRaises ==
    /\ (pc \in {"done", "raised"} /\ AllSegmentsExhausted) => pc = "raised"
    /\ pc = "raised" => (ConfigurationError \/ AllSegmentsExhausted)

\* C8 amended: when every segment's fetches exhaust their retries, search
\* still returns normally, with an empty list; the only outcome that
\* propagates as a hard failure is a configuration error.
TotalExhaustionReturnsEmpty ==
    /\ AllSegmentsExhausted => pc \in {"seg_return", "segment", "finish", "done"}
    /\ (pc = "done" /\ AllSegmentsExhausted) => returned = << >>
    /\ pc = "raised" => (ConfigurationError /\ requests = << >>)

\* C8 witness: all four segments failed and search returned
WitnessTotalExhaustionReturnsEmpty ==
    /\ pc = "done"
    /\ AllSegmentsExhausted
    /\ Len(date_ranges) = DefaultSegments
    /\ exhausted = DefaultSegments
    /\ max_retries > 1

\* None, or a string that is not a date
InvalidDate(d) == d # NoDate /\ ~ValidDate(d)

\* C11 as claimed: with start_date or end_date missing, search processes
\* exactly one segment, the pair (None, None), and no query carries a date
\* clause.
NoRangeUnboundedPair ==
    (pc # "call" /\ ~BothDates(start_date, end_date)) =>
        /\ date_ranges = << <<NoDate, NoDate>> >>
        /\ \A i \in DOMAIN requests :
               requests[i].seg = 1 /\ requests[i].dates = << >>

\* C11 amended: with start_date or end_date missing, search processes
\* exactly one segment, the pair (start_date, end_date) as it was given,
\* which is (None, None) only when both are missing; no query carries a date
\* clause.
NoRangeSinglePair ==
    (pc # "call" /\ ~BothDates(start_date, end_date)) =>
        /\ date_ranges = << <<start_date, end_date>> >>
        /\ seg_idx <= 1
        /\ \A i \in DOMAIN requests :
               requests[i].seg = 1 /\ requests[i].dates = << >>

\* C11 witness: a search with a start date and no end date that received
\* records and returned
WitnessNoRangeSinglePair ==
    /\ pc = "done"
    /\ start_date = YearStart
    /\ end_date = NoDate
    /\ received # << >>
    /\ \E i \in DOMAIN requests : requests[i].status = "ok"

\* C12: a search called with a start_date or an end_date that is not a valid
\* date raises, and no request was made.
InvalidDateFailsFast ==
    (pc # "call" /\ (InvalidDate(start_date) \/ InvalidDate(end_date))) =>
        /\ pc = "raised"
        /\ requests = << >>

(***************************************************************************)
(* Properties of _split_date_range.                                        *)
(***************************************************************************)
SegStart(k) == Strptime(date_ranges[k][1])
SegEnd(k) == Strptime(date_ranges[k][2])

\* C9: exactly N pairs; the first starts at start_date, each later one
\* starts the day after the previous one ends, the last ends at end_date.
SplitContiguous ==
    pc = "split_done" =>
        /\ Len(date_ranges) = segments
        /\ date_ranges[1][1] = start_date
        /\ \A k \in 2..segments : SegStart(k) = SegEnd(k - 1) + 1
        /\ date_ranges[segments][2] = end_date

\* C9 witness: several segments and a remainder for the last one
WitnessSplitContiguous ==
    /\ pc = "split_done"
    /\ segments = DefaultSegments
    /\ (Strptime(end_date) - Strptime(start_date)) % segments # 0
    /\ SegStart(2) > SegStart(1)
    /\ date_ranges[1][1][1] < date_ranges[segments][2][1]

\* C10: every segment has its start not after its end, lies inside
\* [start_date, end_date], and no day belongs to two segments.
SplitWellFormed ==
    pc = "split_done" =>
        /\ \A k \in 1..segments :
               /\ SegStart(k) <= SegEnd(k)
               /\ Strptime(start_date) <= SegStart(k)
               /\ SegEnd(k) <= Strptime(end_date)
        /\ \A k, l \in 1..segments :
               k < l => (SegEnd(k) < SegStart(l) \/ SegEnd(l) < SegStart(k))

\* the range 2023-01-01..2023-12-31 was split into four segments
YearInFour ==
    /\ pc = "split_done"
    /\ start_date = YearStart
    /\ end_date = YearEnd
    /\ segments = DefaultSegments

\* C13 as claimed: 2023-01-01..2023-12-31 in 4 segments is
\* (01-01, 04-01), (04-02, 07-02), (07-03, 10-02), (10-03, 12-31).
YearInFourAsClaimed ==
    YearInFour =>
        date_ranges = << << <<2023, 1, 1>>, <<2023, 4, 1>> >>,
                         << <<2023, 4, 2>>, <<2023, 7, 2>> >>,
                         << <<2023, 7, 3>>, <<2023, 10, 2>> >>,
                         << <<2023, 10, 3>>, <<2023, 12, 31>> >> >>

\* C13 amended: the range has 364 day offsets, a segment is 91 days, and the
\* segments are (01-01, 04-01), (04-02, 07-01), (07-02, 09-30),
\* (10-01, 12-31).
YearInFourAsComputed ==
    YearInFour =>
        /\ SegmentDays(Strptime(start_date), Strptime(end_date), segments) = 91
        /\ date_ranges = << << <<2023, 1, 1>>, <<2023, 4, 1>> >>,
                            << <<2023, 4, 2>>, <<2023, 7, 1>> >>,
                            << <<2023, 7, 2>>, <<2023, 9, 30>> >>,
                            << <<2023, 10, 1>>, <<2023, 12, 31>> >> >>

\* C13 witness: the example was computed
WitnessYearInFour ==
    /\ YearInFour
    /\ Len(date_ranges) = DefaultSegments
    /\ date_ranges[2][1] = <<2023, 4, 2>>

(***************************************************************************)
(* Properties of the fetch operations.                                     *)
(***************************************************************************)
\* the call has ended and every configured attempt failed
AllAttemptsFailed ==
    /\ pc \in {"returned", "returned_empty", "returned_none", "raised"}
    /\ http.failures = max_retries

\* C14: the GETs of a fetch operation never outnumber max_retries; the
\* operation returns on its first successful attempt and attempts nothing
\* after it; a sleep lies between every two consecutive attempts.
AttemptsBounded ==
    /\ http.tries <= max_retries
    /\ http.successes <= 1
    /\ http.successes = 1 <=> pc = "returned"
    /\ pc = "returned" => ~ENABLED NextFetch
    /\ ~http.unslept
    /\ (pc \in {"loop", "probe", "get", "no_proxy"} /\ http.tries > 0) =>
           http.slept

\* C14 witness: a Scholar request through a proxy that succeeded at its last
\* configured attempt, after failed ones
WitnessAttemptsBounded ==
    /\ pc = "returned"
    /\ operation = "_make_request"
    /\ use_proxy
    /\ max_retries > 1
    /\ http.tries = max_retries
    /\ http.failures = max_retries - 1

EveryGetTimesOut ==
    pc # "blocked"

\* C17: the wait after a 429 response to the k-th attempt is k times the
\* base, so these waits grow with the attempt index; a failure that is not
\* a rate-limit response has no escalating wait; the randomized delay after
\* a failed attempt lies in the configured range.
EscalatingRateLimitWait ==
    /\ \A i \in DOMAIN waits :
           /\ waits[i].k = i
           /\ waits[i].escalating =
                  IF waits[i].kind = "rate_limit" THEN i * RateLimitBase ELSE 0
    /\ \A i, j \in DOMAIN waits :
           (/\ i < j
            /\ waits[i].kind = "rate_limit"
            /\ waits[j].kind = "rate_limit") =>
               waits[i].escalating < waits[j].escalating
    /\ waits # << >> => last_delay \in DelayMin..DelayMax

\* C17 witness: a failure that was not a rate limit, then a rate limit at
\* the second attempt
WitnessEscalatingRateLimitWait ==
    /\ Len(waits) = 2
    /\ waits[1].kind \in {"status", "exception"}
    /\ waits[2].kind = "rate_limit"
    /\ waits[2].escalating > RateLimitBase

\* C18: with use_proxy, a request goes through a proxy that is in the pool
\* and that passed its probe in the get_proxy call of the same attempt, and
\* never through a proxy that has been evicted since the pool was built.
RequestsThroughProbedProxy ==
    (pc = "get" /\ use_proxy) =>
        /\ proxy # NoProxy
        /\ InSeq(proxy, proxies)
        /\ gp.probes > 0
        /\ gp.vetted = proxy
        /\ proxy \notin evicted

PaperComplete ==
    (pc = "parse_done" /\ parsed # << >>) =>
        /\ parsed[1].title # << >>
        /\ Len(parsed[1].authors) >= 1
        /\ Len(parsed[1].published_date) = 2
        /\ Len(parsed[1].updated_date) = 2
        /\ parsed[1].published_date[1] = Strptime(SubSeq(feed_entry.published.value, 1, 3))
        /\ parsed[1].updated_date[1] = Strptime(SubSeq(feed_entry.updated.value, 1, 3))

\* C20 witness: a Paper made from an entry with two authors and a title
\* that had whitespace around it
WitnessPaperComplete ==
    /\ pc = "parse_done"
    /\ parsed # << >>
    /\ Len(parsed[1].authors) = 2
    /\ feed_entry.title.value # parsed[1].title
    /\ parsed[1].title = <<"a">>

(***************************************************************************)
(* Properties of _parse_entry: the checks and the optional fields.         *)
(***************************************************************************)
\* the entry has a list of at least one author dict
AuthorsPresent(e) == e.authors.kind = "list" /\ e.authors.value # << >>

\* the title of the entry is a string with a character that is not whitespace
TitleLeft(e) ==
    /\ e.title.kind = "string"
    /\ \E i \in DOMAIN e.title.value : e.title.value[i] \notin Whitespace

\* C22: an entry without authors is rejected; an entry with authors whose
\* published date does not parse is rejected; a Paper is returned only for
\* an entry with authors, two dates that parse and a title that is not
\* empty once newlines are replaced and the ends are stripped.
ChecksRejectFirstFailure ==
    pc = "parse_done" =>
        /\ ~AuthorsPresent(feed_entry) => parsed = << >>
        /\ (AuthorsPresent(feed_entry) /\ DateRejected(feed_entry.published))
               => parsed = << >>
        /\ parsed # << >> =>
               /\ AuthorsPresent(feed_entry)
               /\ ~DateRejected(feed_entry.published)
               /\ ~DateRejected(feed_entry.updated)
               /\ TitleLeft(feed_entry)

\* C22 witness: an entry with an author, a title and a valid updated date
\* is rejected because its published date does not parse
WitnessChecksRejectFirstFailure ==
    /\ pc = "parse_done"
    /\ AuthorsPresent(feed_entry)
    /\ DateRejected(feed_entry.published)
    /\ ~DateRejected(feed_entry.updated)
    /\ TitleLeft(feed_entry)
    /\ parsed = << >>

SummaryLeft(e) ==
    /\ e.summary.kind = "string"
    /\ \E i \in DOMAIN e.summary.value : e.summary.value[i] \notin Whitespace

OptionalFieldsNeverReject ==
    ( /\ pc = "parse_done"
      /\ AuthorsPresent(feed_entry)
      /\ \A i \in DOMAIN feed_entry.authors.value :
             feed_entry.authors.value[i].kind # "other"
      /\ ~DateRejected(feed_entry.published)
      /\ ~DateRejected(feed_entry.updated)
      /\ TitleLeft(feed_entry)
      /\ feed_entry.summary.kind # "other" )
        => parsed # << >>

(***************************************************************************)
(* Properties of the Scholar search.                                       *)
(***************************************************************************)
\* a result div with everything _parse_paper_details reads: a title link
\* with its href
WellFormedDiv(div) == div.kind.title_elem = "link"

\* C21: the batch of a page holds exactly the records of its well-formed
\* result divs, in the order of the page; a div that makes the parser fail
\* is dropped alone.
BatchKeepsWellFormed ==
    LET kept == SelectSeq(result_divs, WellFormedDiv)
    IN  /\ Len(batch_results) = Len(kept)
        /\ \A i \in DOMAIN batch_results : batch_results[i].title = kept[i].text

\* C25: with max_results = 0 a search of either source, with valid dates or
\* without dates, sends no request, does not fail and returns the empty
\* list.
ZeroResultsNoRequest ==
    (max_results = 0 /\ ~InvalidDate(start_date) /\ ~InvalidDate(end_date)) =>
        /\ requests = << >>
        /\ pc \notin {"raised", "s_raised"}
        /\ returned = << >>
        /\ ENABLED NextSearch \/ pc \in {"done", "s_done"}

\* C25 witness: a search over a year with max_results = 0 has planned its
\* segments and returned
WitnessZeroResultsNoRequest ==
    /\ max_results = 0
    /\ pc = "done"
    /\ Len(date_ranges) = DefaultSegments
    /\ requests = << >>
    /\ returned = << >>

(***************************************************************************)
(* Properties of the list search returns.                                  *)
(***************************************************************************)
\* C27: the list search returns holds no two records with the same
\* paper_id.
NoDuplicateIds ==
    pc = "done" =>
        \A i, j \in DOMAIN returned :
            returned[i].paper_id = returned[j].paper_id => i = j

(***************************************************************************)
(* Properties of _save_batch.                                              *)
(***************************************************************************)
\* C28: every file starts with the header and holds it once, its other
\* lines are rows in the order of Fieldnames, and no call of _save_batch
\* fails: a call that finds its file appends its rows to it.
AppendsSucceed ==
    /\ \A t \in DOMAIN files :
          /\ files[t][1] = Fieldnames
          /\ \A i \in 2..Len(files[t]) : files[t][i] # Fieldnames
    /\ pc # "sink_raised"

(***************************************************************************)
(* Properties of set_sort.                                                 *)
(***************************************************************************)
\* C30: sort_by is always one of relevance, lastUpdatedDate and
\* submittedDate; a call of set_sort with another key raises and leaves
\* sort_by and sort_order as they were, a call with one of the three keys
\* sets both; every request carries one of the three keys as sortBy.
SortKeySupported ==
    /\ sort_by \in {"relevance", "lastUpdatedDate", "submittedDate"}
    /\ sort_call.raised <=>
           sort_call.by \notin {"", "relevance", "lastUpdatedDate", "submittedDate"}
    /\ sort_call.raised => <<sort_by, sort_order>> = sort_call.before
    /\ (sort_call # NoCall /\ ~sort_call.raised) =>
           <<sort_by, sort_order>> = <<sort_call.by, sort_call.order>>
    /\ \A i \in DOMAIN requests :
           requests[i].sortBy \in {"relevance", "lastUpdatedDate", "submittedDate"}

\* C30 witness: after sort_by was set to relevance, a call with the key
\* citations raised, and a request was sent with sortBy relevance
WitnessSortKeySupported ==
    /\ pc = "sort"
    /\ sort_call.raised
    /\ sort_call.by = "citations"
    /\ sort_by = "relevance"
    /\ requests # << >>
    /\ requests[Len(requests)].sortBy = "relevance"

(***************************************************************************)
(* Properties of the export.                                               *)
(***************************************************************************)
\* the text holds the separator
HasSeparator(s) ==
    \E i \in 1..(Len(s) - 1) : s[i] = Separator[1] /\ s[i + 1] = Separator[2]

\* s.split('; '): the parts of s between the occurrences of the separator,
\* found from the left
RECURSIVE SplitText(_)
SplitText(s) ==
    IF HasSeparator(s)
    THEN LET i == CHOOSE i \in 1..(Len(s) - 1) :
                     /\ s[i] = Separator[1] /\ s[i + 1] = Separator[2]
                     /\ \A j \in 1..(i - 1) :
                            ~(s[j] = Separator[1] /\ s[j + 1] = Separator[2])
         IN  <<SubSeq(s, 1, i - 1)>> \o SplitText(SubSeq(s, i + 2, Len(s)))
    ELSE <<s>>

\* to_dict leaves the scalar fields as they are
ScalarsKept ==
    /\ export_row.paper_id = export_paper.paper_id
    /\ export_row.title = export_paper.title
    /\ export_row.citations = export_paper.citations

\* C29, as claimed: the scalar fields are reproduced, and splitting the text
\* of every list-valued field on '; ' gives the list back, empty lists
\* included.
ExportRoundTrip ==
    pc = "exported" =>
        /\ ScalarsKept
        /\ \A f \in ListFields :
               export_paper[f].kind = "list" =>
                   SplitText(export_row[f]) = export_paper[f].value

\* C29, as the code behaves: the scalar fields are reproduced; splitting the
\* text of a list-valued field on '; ' gives the list back exactly when the
\* list is not empty and none of its texts holds '; '.  An empty list and
\* None are both exported as the empty text, which splits into [''].
ExportRoundTripOfPlainLists ==
    pc = "exported" =>
        /\ ScalarsKept
        /\ \A f \in ListFields :
               LET list == export_paper[f].value
               IN  /\ SplitText(export_row[f]) = list <=>
                          /\ list # << >>
                          /\ \A i \in DOMAIN list : ~HasSeparator(list[i])
                   /\ list = << >> => SplitText(export_row[f]) = << << >> >>

\* C29 witness: a list of two authors without '; ' in their names is
\* exported as one text and split back into the two names
WitnessExportRoundTripOfPlainLists ==
    /\ pc = "exported"
    /\ Len(export_paper.authors.value) = 2
    /\ export_paper.authors.value[1] = <<"a", ";">>
    /\ export_paper.authors.value[2] = <<" ", "a">>
    /\ SplitText(export_row.authors) = export_paper.authors.value

(***************************************************************************)
(* Properties of two calls of search.                                      *)
(***************************************************************************)
\* what the records of a list say, without the identity of the objects
Content(list) ==
    [i \in DOMAIN list |->
        [paper_id |-> list[i].paper_id, published_date |-> list[i].published_date]]

\* C26: the second call of search against the same source returns the
\* records of the first call, in the same order.
SecondRunSame ==
    (run = 2 /\ pc = "done") => Content(returned) = Content(first_returned)

\* C26 witness: the second call over four segments, one of them failing,
\* has returned two records
WitnessSecondRunSame ==
    /\ run = 2
    /\ pc = "done"
    /\ Len(date_ranges) = DefaultSegments
    /\ failing = 2
    /\ Len(first_returned) = 2
    /\ Len(returned) = 2

(***************************************************************************)
(* Properties of the pacing of search.                                     *)
(***************************************************************************)
\* C34: every request of a call of search but the first is sent after a
\* sleep that followed the request before it.
RequestsPaced == pace.ok

\* C34 witness: in the second segment a request has been sent after the
\* request of the first segment failed for good
WitnessRequestsPaced ==
    /\ pace.ok
    /\ pace.unslept
    /\ seg_idx = 2
    /\ exhausted = 1
    /\ pc = "seg_return"

(***************************************************************************)
(* ProjectManager (project_manager.py): the projects and folders tables of *)
(* research_projects.db and the directories under base_path.  A path is    *)
(* the sequence of its components.                                         *)
(***************************************************************************)
NumNames == 2
MaxProjects == 2

ProjectNames == {"p" \o ToString(i) : i \in 1..NumNames}

\* line 20: self.base_path
BasePath == <<"base">>

\* os.path.join(path, name)
PathJoin(path, name) == Append(path, name)

\* os.path.dirname(path)
Dirname(path) == SubSeq(path, 1, Len(path) - 1)

\* path is prefix itself or lies under it
Under(path, prefix) ==
    /\ Len(prefix) <= Len(path)
    /\ SubSeq(path, 1, Len(prefix)) = prefix

\* line 136: folder_path.replace(old_path, new_path), for a path that
\* starts with old_path
ReplacePath(path, old, new) ==
    IF Under(path, old)
    THEN new \o SubSeq(path, Len(old) + 1, Len(path))
    ELSE path

\* lines 78-83: default_folders in the order of the insertions; parent is
\* the position of the parent folder, 0 for none
DefaultFolders ==
    << [name |-> "Literature Review", parent |-> 0],
       [name |-> "References", parent |-> 1],
       [name |-> "Proposal", parent |-> 0],
       [name |-> "Experiment", parent |-> 0],
       [name |-> "Manuscript", parent |-> 0] >>

\* lines 86 and 97: the path of the k-th default folder
FolderPath(project_path, k) ==
    IF DefaultFolders[k].parent = 0
    THEN PathJoin(project_path, DefaultFolders[k].name)
    ELSE PathJoin(PathJoin(project_path,
                           DefaultFolders[DefaultFolders[k].parent].name),
                  DefaultFolders[k].name)

\* lines 44, 93: AUTOINCREMENT ids of the folders table; every project
\* inserts Len(DefaultFolders) rows
FolderId(project_id, k) == Len(DefaultFolders) * (project_id - 1) + k

\* lines 89-102: the folder rows of a new project
FolderRows(project_id, project_path) ==
    { [id |-> FolderId(project_id, k),
       project_id |-> project_id,
       parent_id |-> IF DefaultFolders[k].parent = 0 THEN 0
                     ELSE FolderId(project_id, DefaultFolders[k].parent),
       name |-> DefaultFolders[k].name,
       path |-> FolderPath(project_path, k)] : k \in DOMAIN DefaultFolders }

\* mutant of ListProjects: the rows without their names
ListProjectsUnnamed(rows) ==
    { [id |-> i, name |-> "", path |-> rows[i].path] : i \in DOMAIN rows }

\* lines 174-175: list_projects; SELECT without ORDER BY, the rows as a set
ListProjects(rows) ==
    { [id |-> i, name |-> rows[i].name, path |-> rows[i].path] :
        i \in DOMAIN rows }

\* lines 192-198: get_project, for an id that has a row
GetProject(rows, project_id) ==
    [id |-> project_id, name |-> rows[project_id].name,
     path |-> rows[project_id].path]

\* line 160 with line 50: the folders left by DELETE FROM projects; the
\* rows of the project go only when foreign keys are enforced
FoldersAfterDelete(rows, project_id, enforced) ==
    IF enforced THEN { f \in rows : f.project_id # project_id } ELSE rows

\* a function without the key k
Without(f, k) == [i \in DOMAIN f \ {k} |-> f[i]]

\* a function with the key k set to v
With(f, k, v) == [i \in DOMAIN f \cup {k} |-> IF i = k THEN v ELSE f[i]]

\* os.rename(old, new) raises OSError: new is another directory that is
\* not empty
RenameFails(old, new) ==
    /\ new # old
    /\ \E d \in dirs : Under(d, new) /\ d # new

InitProjects ==
    /\ pc = "store"
    /\ max_results = 0
    /\ batch_size = 1
    /\ max_retries = 0
    /\ start_date = NoDate
    /\ end_date = NoDate
    /\ segments = DefaultSegments
    /\ source_left = 0
    /\ InitIdle
    /\ InitProxyIdle
    /\ InitParseIdle
    /\ InitOtherIdle
    /\ pace = NoPace
    /\ projects = << >>
    /\ folders = {}
    /\ last_id = 0
    /\ dirs = {BasePath}
    /\ foreign_keys \in BOOLEAN
    /\ last_call = NoStoreCall
    /\ given = << >>

store_rest == <<max_results, batch_size, max_retries, start_date, end_date,
                segments, date_ranges, seg_idx, all_results, current_batch,
                attempt, received, exhausted, source_left, results,
                start_idx, returned, requests, pc, operation, use_proxy,
                proxies, proxy, http, waits, last_delay, gp, evicted,
                feed_entry, parsed, save_batch, result_divs, batch_results,
                files, clock, settings, mock, pace>>

\* lines 57-106: create_project(project_name)
CreateProject ==
    /\ pc = "store"
    /\ last_id < MaxProjects
    /\ \E project_name \in ProjectNames :
        LET project_path == PathJoin(BasePath, project_name)
            project_id == last_id + 1
        IN  /\ dirs' = dirs \cup {project_path}
                        \cup { f.path : f \in FolderRows(project_id, project_path) }
            /\ projects' = With(projects, project_id,
                                [name |-> project_name, path |-> project_path])
            /\ last_id' = project_id
            /\ folders' = folders \cup FolderRows(project_id, project_path)
            /\ given' = With(given, project_id, project_name)
            /\ last_call' = [op |-> "create", id |-> project_id,
                             name |-> project_name, raised |-> FALSE]
    /\ UNCHANGED <<store_rest, foreign_keys>>

\* lines 108-140: rename_project(project_id, new_name)
RenameProject ==
    /\ pc = "store"
    /\ \E project_id \in DOMAIN projects, new_name \in ProjectNames :
        LET old_path == projects[project_id].path
            new_path == PathJoin(Dirname(old_path), new_name)
        IN  /\ ~(old_path \in dirs /\ RenameFails(old_path, new_path))
            /\ dirs' = IF old_path \in dirs
                        THEN { ReplacePath(d, old_path, new_path) : d \in dirs }
                        ELSE dirs
            /\ projects' = [projects EXCEPT
                              ![project_id] = [name |-> new_name,
                                               path |-> new_path]]
            /\ folders' = { IF f.project_id = project_id
                             THEN [f EXCEPT !.path =
                                     ReplacePath(f.path, old_path, new_path)]
                             ELSE f : f \in folders }
            /\ given' = Without(given, project_id)
            /\ last_call' = [op |-> "rename", id |-> project_id,
                             name |-> new_name, raised |-> FALSE]
    /\ UNCHANGED <<store_rest, last_id, foreign_keys>>

\* line 120: fetchone() is None for an unknown id, TypeError; line 127:
\* OSError of os.rename; nothing is committed
RenameRaises ==
    /\ pc = "store"
    /\ \E project_id \in 1..MaxProjects, new_name \in ProjectNames :
        /\ \/ project_id \notin DOMAIN projects
           \/ /\ project_id \in DOMAIN projects
              /\ projects[project_id].path \in dirs
              /\ RenameFails(projects[project_id].path,
                             PathJoin(Dirname(projects[project_id].path),
                                      new_name))
        /\ last_call' = [op |-> "rename", id |-> project_id,
                         name |-> new_name, raised |-> TRUE]
    /\ UNCHANGED <<store_rest, projects, folders, last_id, dirs,
                   foreign_keys, given>>

\* lines 142-163: delete_project(project_id)
DeleteProject ==
    /\ pc = "store"
    /\ \E project_id \in DOMAIN projects :
        LET project_path == projects[project_id].path
        IN  /\ dirs' = { d \in dirs : ~Under(d, project_path) }
            /\ projects' = Without(projects, project_id)
            /\ folders' = FoldersAfterDelete(folders, project_id,
                                             foreign_keys)
            /\ given' = Without(given, project_id)
            /\ last_call' = [op |-> "delete", id |-> project_id,
                             name |-> "", raised |-> FALSE]
    /\ UNCHANGED <<store_rest, last_id, foreign_keys>>

\* line 153: fetchone() is None for an unknown id, TypeError
DeleteRaises ==
    /\ pc = "store"
    /\ \E project_id \in 1..MaxProjects :
        /\ project_id \notin DOMAIN projects
        /\ last_call' = [op |-> "delete", id |-> project_id,
                         name |-> "", raised |-> TRUE]
    /\ UNCHANGED <<store_rest, projects, folders, last_id, dirs,
                   foreign_keys, given>>

NextProjects ==
    \/ CreateProject
    \/ RenameProject
    \/ RenameRaises
    \/ DeleteProject
    \/ DeleteRaises

SpecProjects == InitProjects /\ [][NextProjects]_vars

\* C31: after delete_project(id) has completed there is no project row
\* with that id and no folder row whose project_id is that id.
FoldersDeletedWithProject ==
    (last_call.op = "delete" /\ ~last_call.raised) =>
        /\ last_call.id \notin DOMAIN projects
        /\ \A f \in folders : f.project_id # last_call.id

PathsDistinct ==
    \A i, j \in DOMAIN projects :
        i # j => projects[i].path # projects[j].path

(***************************************************************************)
(* Properties of the end of a segment.                                     *)
(***************************************************************************)
\* C33: a segment ends on a short batch only when the source returned
\* fewer entries than were requested; the entries of the response are the
\* ones the source has handed out in the step.
ShortBatchBySource ==
    [][(/\ pc = "fetch"
        /\ pc' = "seg_return"
        /\ Len(results') > Len(results))
       => source_left - source_left' < current_batch]_vars

(***************************************************************************)
(* Properties of the proxy pool.                                           *)
(***************************************************************************)
\* C36: a candidate that get_proxy has evicted is not in the pool until
\* refresh_proxies rebuilds the pool.
EvictedAbsent == \A p \in evicted : ~InSeq(p, proxies)

\* C37: with use_proxy false no step of _make_request changes the proxy
\* pool.
PoolUntouchedWithoutProxy ==
    [][(operation = "_make_request" /\ ~use_proxy) => proxies' = proxies]_vars

(***************************************************************************)
(* Properties of the Scholar sink and of the returned list.                *)
(***************************************************************************)
\* the rows that the calls of _save_batch of this search have written
SavedRows ==
    UNION { { files[t][i] : i \in 2..Len(files[t]) } : t \in DOMAIN files }
        \ { EarlierFile[0][i] : i \in 2..Len(EarlierFile[0]) }

\* C38: with save_batch set, the rows written to the sink are the rows of
\* the records that search returned.
SinkHoldsReturned ==
    (pc = "s_done" /\ save_batch) =>
        SavedRows = { Rows(returned)[j] : j \in DOMAIN returned }

(***************************************************************************)
(* ArxivSearcher.save_papers (arxiv.py, lines 317-339).  files maps the    *)
(* path of a file to what was written to it.                               *)
(***************************************************************************)
\* the format tags given by callers
FormatTags == {"csv", "CSV", "json", "excel", "xml"}

\* format.lower()
Lower(tag) == IF tag = "CSV" THEN "csv" ELSE tag

\* lines 328-337: the tags that have a branch
Supported(tag) == Lower(tag) \in {"csv", "json", "excel"}

\* the targets given by callers, relative to the working directory
SavePaths == { <<"out">>, <<"data", "out">>, <<"data", "run", "out">> }

\* line 323: filepath.parent.mkdir(parents=True, exist_ok=True) leaves the
\* parent and every directory above it in place
Parents(path) == { SubSeq(path, 1, k) : k \in 0..(Len(path) - 1) }

\* the lists of papers given by callers
PaperLists == { << >>, <<PlainPaper>> }

InitSave ==
    /\ pc = "save"
    /\ max_results = 0
    /\ batch_size = 1
    /\ max_retries = 0
    /\ start_date = NoDate
    /\ end_date = NoDate
    /\ segments = DefaultSegments
    /\ source_left = 0
    /\ InitIdle
    /\ InitProxyIdle
    /\ InitParseIdle
    /\ InitOtherIdle
    /\ pace = NoPace
    /\ projects = << >>
    /\ folders = {}
    /\ last_id = 0
    /\ dirs = { << >> }
    /\ foreign_keys = FALSE
    /\ last_call = NoStoreCall
    /\ given = << >>

save_rest == <<max_results, batch_size, max_retries, start_date, end_date,
               segments, date_ranges, seg_idx, all_results, current_batch,
               attempt, received, exhausted, source_left, results,
               start_idx, returned, requests, pc, operation, use_proxy,
               proxies, proxy, http, waits, last_delay, gp, evicted,
               feed_entry, parsed, save_batch, result_divs, batch_results,
               clock, settings, mock, pace, projects, folders, last_id,
               foreign_keys, given>>

\* lines 322-339 with a tag of csv, json or excel: the file is written
SavePapers ==
    /\ pc = "save"
    /\ \E papers \in PaperLists, filepath \in SavePaths, format \in FormatTags :
        /\ Supported(format)
        /\ dirs' = dirs \cup Parents(filepath)
        /\ files' = (filepath :> [format |-> Lower(format),
                                  data |-> [i \in DOMAIN papers |->
                                              ToDict(papers[i])]]) @@ files
        /\ last_call' = [op |-> "save", id |-> Len(filepath),
                         name |-> format, raised |-> FALSE]
    /\ UNCHANGED save_rest

\* lines 322-337 with any other tag: ValueError, after the mkdir of line 323
SavePapersRaises ==
    /\ pc = "save"
    /\ \E papers \in PaperLists, filepath \in SavePaths, format \in FormatTags :
        /\ ~Supported(format)
        /\ dirs' = dirs \cup Parents(filepath)
        /\ last_call' = [op |-> "save", id |-> Len(filepath),
                         name |-> format, raised |-> TRUE]
    /\ UNCHANGED <<save_rest, files>>

NextSave == SavePapers \/ SavePapersRaises

SpecSave == InitSave /\ [][NextSave]_vars

\* C39: a call of save_papers that raises for its format tag writes no
\* file and creates no directory.
UnsupportedLeavesStore ==
    [][(last_call'.op = "save" /\ last_call'.raised)
       => (files' = files /\ dirs' = dirs)]_vars

(***************************************************************************)
(* Termination of search and the requests it spends.                       *)
(***************************************************************************)
\* the smallest number of batches of size b that hold a entries
CeilDiv(a, b) == (a + b - 1) \div b

\* the batches a segment that holds n records may still ask for
BatchesLeft(n) ==
    IF n >= max_results THEN 0 ELSE CeilDiv(max_results - n, batch_size)

\* the steps one batch request may take: the request, then its attempts
BatchSteps == max_retries + 2

\* the steps one segment may take
SegmentSteps == CeilDiv(max_results, batch_size) * BatchSteps + 4

\* the steps the segment being processed may still take
StepsInSegment ==
    CASE pc = "while" -> BatchesLeft(Len(results)) * BatchSteps + 2
      [] pc = "fetch" -> (BatchesLeft(Len(results)) - 1) * BatchSteps + 2
                             + (max_retries + 1 - attempt)
      [] pc = "seg_return" -> 1
      [] OTHER -> 0

\* the steps search may still take
StepsLeft ==
    CASE pc = "call" ->
             3 + (IF segments > 1 THEN segments ELSE 1) * SegmentSteps
      [] pc \in {"segment", "while", "fetch", "seg_return"} ->
             2 + (Len(date_ranges) - seg_idx) * SegmentSteps + StepsInSegment
      [] pc = "finish" -> 1
      [] OTHER -> 0

\* C35: search ends when every HTTP call returns: each step is a
\* statement whose calls return, and every step lowers the number of steps
\* that may still be taken, a natural number, so no run goes on forever.
\* No segment is asked for more than ceil(max_results / batch_size)
\* batches, and the GET about to be sent for a batch is at most the
\* max_retries-th.
SearchTerminates ==
    /\ [](\A i \in DOMAIN requests :
             requests[i].nth <= CeilDiv(max_results, batch_size))
    /\ [](pc = "fetch" =>
             (attempt + 1 <= max_retries \/ (max_retries = 0 /\ attempt = 0)))
    /\ [](StepsLeft \in Nat)
    /\ [][StepsLeft' < StepsLeft]_vars

\* C35 witness: search has ended after a segment was asked for as many
\* batches as the bound allows, the last of which failed in every attempt
WitnessSearchTerminates ==
    /\ pc = "done"
    /\ max_retries = MaxRetries
    /\ \E i \in DOMAIN requests :
           /\ requests[i].nth = CeilDiv(max_results, batch_size)
           /\ requests[i].nth > 1
           /\ requests[i].status = "failed"

====
